---- MODULE Spec2Model ----
(***************************************************************************)
(* Lifecycle and leadership coordination core of PavelAgarkov/kernel:      *)
(* the Redis lock (package locker), the leader election watchdog (package  *)
(* watchdog) built on it, the job scheduler (package scheduler) and the    *)
(* shutdown hooks of the application (package application).                *)
(*                                                                         *)
(* Time is counted in seconds; the store keeps expiries in milliseconds.   *)
(* A Redis script runs atomically in the store, so one locker call is one  *)
(* step.  The assignment to isLeader that follows a call is a step of its  *)
(* own: other processes reach the store between the two.  Every blocking   *)
(* point of the election goroutine (the GoRecover check, a select, a       *)
(* channel send) is a step as well.                                        *)
(***************************************************************************)
EXTENDS Integers, Sequences, FiniteSets, TLC

\* ------------------------------------------------------------------------
\* Bounds of the model
\* ------------------------------------------------------------------------
\* isLeader transitions of an election running alone
MaxEvents == 9
\* isLeader transitions of each of two competing elections
MaxDuelEvents == 2
\* seconds that pass in one TimePasses step
TimeStep == 10

\* ------------------------------------------------------------------------
\* Program constants
\* ------------------------------------------------------------------------
DefaultLeaderExpiration == 30
LostAcquire == 1
TakenAcquire == 2
WatcherCap == 8
lockKeyPrefix == "github.com/PavelAgarkov/service-pkg-block-prefix-"

\* the election goroutines competing through the same store
Elections == {1, 2}
\* election names a caller may configure; "" is the empty ElectionName
ElectionNames == {"", "cron"}
\* Expiration values a caller may configure (seconds); 0 selects the default
ConfigExpirations == {0, 20}
\* keys and tokens used by direct callers of the locker
ClientKeys == {"cron", "busher"}
ClientTokens == {"t1", "t2"}
ClientExpirations == {10, 20}

NoLock == [val |-> "", ttl |-> 0]
NoCall == [op |-> "none"]

\* the keys the scripts run on: lockKeyPrefix + key
StoreKey(key) == lockKeyPrefix \o key
StoreKeys == {StoreKey(k) : k \in ClientKeys}

\* time.Duration.Milliseconds()
Milliseconds(d) == d * 1000

\* uuid.NewString(): a value no other election and no other caller has
Token(e) == "uuid-" \o ToString(e)

VARIABLES
  store,      \* the Redis keyspace: store key -> [val, ttl in ms], NoLock when absent
  lastCall,   \* the last direct locker call and what it returned
  granted,    \* per key, the tokens whose Lock returned true and is not yet released or expired
  pc,         \* position of each election: idle, panicked, spawned, lock0, loop, set, send, done
  cfgName,    \* cfg.ElectionName of each election
  cfgExpiration, \* cfg.Expiration of each election after defaulting
  cancelled,  \* rwl.ctx of each election's watchdog is cancelled
  isLeader,   \* the goroutine's isLeader
  sending,    \* the event of the pending change of isLeader and of its send
  after,      \* where the goroutine continues after the pending send: loop or return
  chan,       \* the watcher channel: none, open, closed
  watcher,    \* the events buffered in the watcher channel
  emitted,    \* every event ever put on the watcher channel, in order
  changes,    \* every change of isLeader, as the event that reports it, in order
  called,     \* the election has made a locker call
  lastErr,    \* the election's last Lock or ExtendLockTTL ended with an error
  elCall,     \* history: the election's last locker call, what it returned and
              \* whether the store could be reached
  lapsed      \* "leader": a lease expired while its holder had isLeader = true;
              \* "pending": none did, but one expired between its holder's Lock and
              \* the holder's isLeader = true; "no": neither happened

VARIABLES
  rate,       \* capacity of the s.rate channel
  rateUsed,   \* number of slots taken in s.rate
  started,    \* s.started
  muHeld,     \* s.mu is held (by a Stop between its Lock and its Unlock)
  jobs,       \* s.goroutines: name -> registered job, NoJob when absent
  jctx,       \* per job, the generation of j.ctx, j.cancel and j.ticker; 0 is nil
  jctxDone,   \* per job, the generations of j.ctx that are cancelled
  tickerStopped, \* per job, the generations of j.ticker that are stopped
  wg,         \* per job, the counter of j.wg
  parentDone, \* the ctx passed to Start is cancelled
  startPc,    \* the caller of Start: idle, or jobs while in the loop over the jobs
  startTodo,  \* the jobs the loop of Start has yet to set up
  stopPc,     \* the caller of Stop: idle, cancel, wait, panicked
  stopTodo,   \* the jobs the current loop of Stop has yet to visit
  stopCur,    \* the job Stop has cancelled and whose ticker it stops next, "" if none
  gpc,        \* position of each job goroutine: none, spawned, loop, select, exec,
              \* check, running, panicking, failed, recovered
  glocal,     \* the generation of ctx and ticker the goroutine read at the loop's top
  execParent, \* the ctx the running execution's ctx was derived from:
              \* a generation of j.ctx, 0 for context.Background(), -1 when not running
  execCtx,    \* the running execution's ctx: none, live, cancelled, deadline
  stopDone,   \* a Stop that stopped the scheduler has returned and no Start was called since
  awaited,    \* the executions that were running when Stop cancelled their job
  lastOp      \* the last call of Add, Start or Stop and what it found, NoOp after any
              \* other step

VARIABLES
  shutdown,       \* app.shutdown: the list of hooks, each with its priority and
                  \* the number of the RegisterShutdown call that added it
  registrations,  \* the number of RegisterShutdown calls made
  shutdownRWM,    \* the caller of App.Stop that holds app.shutdownRWM, 0 if none
  stopperPc,      \* position of each caller of App.Stop: idle, supervisors,
                  \* drain, hook, panicked, and returned after App.Stop returned
  stopperNext,    \* how many supervisors the loop of the caller's App.Stop has passed
  batch,          \* the hooks started since app.shutdownRWM was last taken by App.Stop
  leaderSupervisors, \* app.leaderSupervisors
  Working,        \* supervisor.Working
  supervisorDone, \* supervisor.ctx is cancelled
  supervisorPc,   \* position of each supervisor goroutine: none, spawned, loop, exited
  supervisorCall, \* the last of supervisor.Start and supervisor.Stop that was called,
                  \* none before the first call, repeated once a closure was
                  \* called twice in a row or Stop was called first
  appDone,        \* app.ctx is cancelled
  executed,       \* the hooks whose shutdownFunc has been called
  sig,            \* app.sig: the signals in the channel
  notifying,      \* signal.Notify(app.sig, ...) is in force
  signalled,      \* history: a signal was put on app.sig
  handlerPc,      \* position of the goroutine of App.Start: none, spawned, waiting,
                  \* received, exited, and skipped when GoRecover did not run it
  cancelCalls,    \* how many times the cancel passed to App.Start was called
  recoverPc       \* position of each deferred function of RegisterRecovers: idle,
                  \* send, done

\* ReadinessBarrier
VARIABLES
  running,        \* r.running
  readinessFlag,  \* r.readinessFlag
  signals,        \* r.signals, the buffered channel, oldest signal first
  barrierParent,  \* r.parent is done
  runCancel,      \* r.runCancel: the context it cancels, NoCtx for nil
  barrierWg,      \* r.wg
  nextCtx,        \* how many contexts Start has derived from r.parent
  runDone,        \* for each context Start derived: it is done
  callerPc,       \* position of each caller of Start or Stop: idle; Start after its
                  \* CompareAndSwap: assign, add, go; Stop after its CompareAndSwap:
                  \* cancel, wait, drop, set
  callerCtx,      \* the context a caller of Start derived
  listenerPc,     \* position of the goroutine that runs listen(ctx), for each
                  \* context: none, select, switch, exited
  listenerSig,    \* the signal a listener took from the channel
  senderPc,       \* position of each caller of SendSignalCtx: idle, select
  senderSig,      \* the signal a caller of SendSignalCtx sends
  senderDone,     \* the ctx of a caller of SendSignalCtx is done
  lastRefused,    \* history: the last call that returned at its first check: Start,
                  \* Stop or SendSignalCtx
  sinceStop       \* history: never when no Stop has returned, stopped after a Stop
                  \* returned, started after a later Start, readied after a
                  \* ReadySignalToggle whose SendSignalCtx was called or that was
                  \* enqueued after that Start

lockerVars == <<lastCall, granted>>
electVars == <<pc, cfgName, cfgExpiration, cancelled, isLeader, sending, after,
               chan, watcher, emitted, changes, called, lastErr, elCall, lapsed>>
schedVars == <<rate, rateUsed, started, muHeld, jobs, jctx, jctxDone, tickerStopped, wg,
               parentDone, startPc, startTodo, stopPc, stopTodo, stopCur, gpc, glocal,
               execParent, execCtx, stopDone, awaited, lastOp>>
signalVars == <<sig, notifying, signalled, handlerPc, cancelCalls, recoverPc>>
appVars == <<shutdown, registrations, shutdownRWM, stopperPc, stopperNext, batch,
             leaderSupervisors, Working, supervisorDone, supervisorPc, supervisorCall,
             appDone, executed, signalVars>>
\* the ticker of an election
VARIABLES
  tickerCfg,            \* cfg.Expiration as passed to Elect
  tickerPc,             \* elect before the goroutine makes its ticker, then ticking,
                        \* or panicked when rand.Int63n panicked
  renewIntervalJitter   \* the interval of the ticker

tickerVars == <<tickerCfg, tickerPc, renewIntervalJitter>>
barrierVars == <<running, readinessFlag, signals, barrierParent, runCancel, barrierWg,
                 nextCtx, runDone, callerPc, callerCtx, listenerPc, listenerSig, senderPc,
                 senderSig, senderDone, lastRefused, sinceStop>>
vars == <<store, lockerVars, electVars, schedVars, appVars, barrierVars, tickerVars>>
\* what the locker and the watchdog leave alone
outsideWatchdog == <<schedVars, appVars, barrierVars, tickerVars>>
\* what the scheduler leaves alone
outsideScheduler == <<store, lockerVars, electVars, appVars, barrierVars, tickerVars>>
\* what the application leaves alone
outsideApp == <<store, lockerVars, electVars, schedVars, barrierVars, tickerVars>>
\* what the application and the watchdog together leave alone
outsideSupervision == <<schedVars, barrierVars, tickerVars>>
\* what the readiness barrier leaves alone
outsideBarrier == <<store, lockerVars, electVars, schedVars, appVars, tickerVars>>
\* what the making of an election's ticker leaves alone
outsideTicker == <<store, lockerVars, electVars, schedVars, appVars, barrierVars>>

\* ------------------------------------------------------------------------
\* package locker
\* ------------------------------------------------------------------------
\* lockScript with the NX option forgotten
lockScript_noNX(st, k, value, ms) ==
  [store |-> [st EXCEPT ![k] = [val |-> value, ttl |-> ms]], result |-> 1]

\* redis.call("SET", KEYS[1], ARGV[1], "NX", "PX", ARGV[2]) and 1 or 0
lockScript(st, k, value, ms) ==
  IF st[k] = NoLock
    THEN [store |-> [st EXCEPT ![k] = [val |-> value, ttl |-> ms]], result |-> 1]
    ELSE [store |-> st, result |-> 0]

\* unlockScript without the comparison of the stored value
unlockScript_noCompare(st, k, value) ==
  IF st[k] # NoLock
    THEN [store |-> [st EXCEPT ![k] = NoLock], result |-> 1]
    ELSE [store |-> st, result |-> 0]

\* if GET == ARGV[1] then DEL else 0
unlockScript(st, k, value) ==
  IF st[k] # NoLock /\ st[k].val = value
    THEN [store |-> [st EXCEPT ![k] = NoLock], result |-> 1]
    ELSE [store |-> st, result |-> 0]

\* if GET == ARGV[1] then PEXPIRE KEYS[1] ARGV[2] else 0
extendTTLScript(st, k, value, ms) ==
  IF st[k] # NoLock /\ st[k].val = value
    THEN [store |-> [st EXCEPT ![k] = [val |-> value, ttl |-> ms]], result |-> 1]
    ELSE [store |-> st, result |-> 0]

\* redisClient.Eval(ctx, script, ...).Int(): the script's reply, or an error
\* when ctx is done or the store cannot be reached (the script did not run)
Eval(st, ctxDone, up, reply) ==
  IF ctxDone \/ ~up
    THEN [store |-> st, result |-> 0, err |-> TRUE]
    ELSE [store |-> reply.store, result |-> reply.result, err |-> FALSE]

\* Lock that takes every answer of the store for success
Lock_anyReplyOk(st, ctxDone, up, key, value, expiration) ==
  LET r == Eval(st, ctxDone, up,
                lockScript(st, StoreKey(key), value, Milliseconds(expiration)))
  IN  IF r.err THEN [ok |-> FALSE, err |-> TRUE, store |-> r.store]
               ELSE [ok |-> TRUE, err |-> FALSE, store |-> r.store]

\* ExtendLockTTL(ctx, key, value, expiration) that swallows the error of Eval
ExtendLockTTL_swallowErr(st, ctxDone, up, key, value, expiration) ==
  LET r == Eval(st, ctxDone, up,
                extendTTLScript(st, StoreKey(key), value, Milliseconds(expiration)))
  IN  [ok |-> (r.result = 1), err |-> FALSE, store |-> r.store]

\* Lock(ctx, key, value, expiration)
Lock(st, ctxDone, up, key, value, expiration) ==
  LET r == Eval(st, ctxDone, up,
                lockScript(st, StoreKey(key), value, Milliseconds(expiration)))
  IN  IF r.err THEN [ok |-> FALSE, err |-> TRUE, store |-> r.store]
               ELSE [ok |-> (r.result = 1), err |-> FALSE, store |-> r.store]

\* Unlock(ctx, key, value)
Unlock(st, ctxDone, up, key, value) ==
  LET r == Eval(st, ctxDone, up, unlockScript(st, StoreKey(key), value))
  IN  IF r.err THEN [ok |-> FALSE, err |-> TRUE, store |-> r.store]
               ELSE [ok |-> (r.result = 1), err |-> FALSE, store |-> r.store]

\* ExtendLockTTL(ctx, key, value, expiration)
ExtendLockTTL(st, ctxDone, up, key, value, expiration) ==
  LET r == Eval(st, ctxDone, up,
                extendTTLScript(st, StoreKey(key), value, Milliseconds(expiration)))
  IN  IF r.err THEN [ok |-> FALSE, err |-> TRUE, store |-> r.store]
               ELSE [ok |-> (r.result = 1), err |-> FALSE, store |-> r.store]

\* the store's own expiry of keys (PX / PEXPIRE) after TimeStep seconds
Expire(st) ==
  [k \in DOMAIN st |->
     IF st[k] = NoLock \/ st[k].ttl <= Milliseconds(TimeStep)
       THEN NoLock
       ELSE [val |-> st[k].val, ttl |-> st[k].ttl - Milliseconds(TimeStep)]]

Call(op, key, value, expiration, up, r) ==
  [op |-> op, key |-> key, value |-> value, ms |-> Milliseconds(expiration),
   up |-> up, pre |-> store[StoreKey(key)], ok |-> r.ok, err |-> r.err]

\* ------------------------------------------------------------------------
\* JobScheduler (package scheduler): definitions used by Init
\* ------------------------------------------------------------------------
\* the StopMode values
StopImmediate == 0
StopGraceful == 1

\* the most Start calls that launch goroutines, so the most generations of a
\* job's ctx, cancel and ticker
MaxStarts == 2

Jobs == {"A", "B"}
StopModes == {StopImmediate, StopGraceful}
Gens == 1..MaxStarts
\* a job goroutine is named by its job and by the generation Start launched it in
JobGoroutines == Jobs \X Gens
\* the rate values passed to NewJobScheduler
RateInputs == {0, 1, 2}
NoJob == [stopMode |-> -1]
NoOp == [op |-> "none"]
\* context.Background() as the parent of an execution's ctx
Background == 0

\* NewJobScheduler(rate): the capacity of the rate channel
NewJobScheduler(r) == IF r <= 0 THEN 1 ELSE r

\* a scheduler right after NewJobScheduler, with a rate channel of capacity c
SchedulerIdle(c) ==
  /\ rate = c
  /\ rateUsed = 0
  /\ started = FALSE
  /\ muHeld = FALSE
  /\ jobs = [j \in Jobs |-> NoJob]
  /\ jctx = [j \in Jobs |-> 0]
  /\ jctxDone = [j \in Jobs |-> {}]
  /\ tickerStopped = [j \in Jobs |-> {}]
  /\ wg = [j \in Jobs |-> 0]
  /\ parentDone = FALSE
  /\ startPc = "idle"
  /\ startTodo = {}
  /\ stopPc = "idle"
  /\ stopTodo = {}
  /\ stopCur = ""
  /\ gpc = [g \in JobGoroutines |-> "none"]
  /\ glocal = [g \in JobGoroutines |-> 0]
  /\ execParent = [g \in JobGoroutines |-> -1]
  /\ execCtx = [g \in JobGoroutines |-> "none"]
  /\ stopDone = FALSE
  /\ awaited = {}
  /\ lastOp = NoOp

\* ------------------------------------------------------------------------
\* App (package application): definitions used by Init
\* ------------------------------------------------------------------------
\* the callers of App.Stop
Stoppers == {1, 2}
Supervisors == {"cron"}
\* the goroutines that defer the function RegisterRecovers returns
Recoverers == {1, 2}

\* an App right after NewApp
AppIdle ==
  /\ shutdown = <<>>
  /\ registrations = 0
  /\ shutdownRWM = 0
  /\ stopperPc = [t \in Stoppers |-> "idle"]
  /\ stopperNext = [t \in Stoppers |-> 0]
  /\ batch = <<>>
  /\ leaderSupervisors = <<>>
  /\ Working = [s \in Supervisors |-> FALSE]
  /\ supervisorDone = [s \in Supervisors |-> FALSE]
  /\ supervisorPc = [s \in Supervisors |-> "none"]
  /\ supervisorCall = [s \in Supervisors |-> "none"]
  /\ appDone = FALSE
  /\ executed = {}
  /\ sig = <<>>
  /\ notifying = FALSE
  /\ signalled = FALSE
  /\ handlerPc = "none"
  /\ cancelCalls = 0
  /\ recoverPc = [p \in Recoverers |-> "idle"]

\* a direct caller's Lock(ctx, key, value, expiration)
CallLock(key, value, expiration, up) ==
  LET r == Lock(store, FALSE, up, key, value, expiration) IN
  /\ store' = r.store
  /\ lastCall' = Call("Lock", key, value, expiration, up, r)
  /\ granted' = IF r.ok THEN [granted EXCEPT ![key] = @ \cup {value}] ELSE granted
  /\ UNCHANGED electVars
  /\ UNCHANGED outsideWatchdog

\* a direct caller's Unlock(ctx, key, value)
CallUnlock(key, value, up) ==
  LET r == Unlock(store, FALSE, up, key, value) IN
  /\ store' = r.store
  /\ lastCall' = Call("Unlock", key, value, 0, up, r)
  /\ granted' = IF r.ok THEN [granted EXCEPT ![key] = @ \ {value}] ELSE granted
  /\ UNCHANGED electVars
  /\ UNCHANGED outsideWatchdog

\* a direct caller's ExtendLockTTL(ctx, key, value, expiration)
CallExtendLockTTL(key, value, expiration, up) ==
  LET r == ExtendLockTTL(store, FALSE, up, key, value, expiration) IN
  /\ store' = r.store
  /\ lastCall' = Call("ExtendLockTTL", key, value, expiration, up, r)
  /\ UNCHANGED <<granted, electVars>>
  /\ UNCHANGED outsideWatchdog

\* TimeStep seconds pass: leases run down and expire
TimePasses ==
  /\ \E k \in DOMAIN store : store[k] # NoLock
  /\ store' = Expire(store)
  /\ lastCall' = NoCall
  /\ granted' = [key \in ClientKeys |->
                   IF store'[StoreKey(key)] = NoLock THEN {} ELSE granted[key]]
  /\ LET Loses(e) == /\ pc[e] \notin {"idle", "panicked"}
                      /\ store[StoreKey(cfgName[e])] # NoLock
                      /\ store[StoreKey(cfgName[e])].val = Token(e)
                      /\ store'[StoreKey(cfgName[e])] = NoLock
     IN lapsed' = IF lapsed = "leader" \/ \E e \in Elections : Loses(e) /\ isLeader[e]
                    THEN "leader"
                  ELSE IF \E e \in Elections :
                            Loses(e) /\ pc[e] = "set" /\ sending[e] = TakenAcquire
                    THEN "pending"
                  ELSE lapsed
  /\ UNCHANGED <<pc, cfgName, cfgExpiration, cancelled, isLeader, sending, after,
                 chan, watcher, emitted, changes, called, lastErr, elCall>>
  /\ UNCHANGED outsideWatchdog

\* the store, the locker's callers and the elections after construction
\* the most contexts the callers of ReadinessBarrier.Start derive
MaxRuns == 2

\* the capacity of r.signals
SignalsCap == 4

ReadySignalToggle == "ready"
NotReadySignalToggle == "not_ready"
ToggleSignals == {ReadySignalToggle, NotReadySignalToggle}
NoSignal == "none"
NoCtx == 0
Runs == 1..MaxRuns

\* the goroutines that call Start and Stop, and those that call SendSignalCtx
Callers == {1, 2}
Senders == {1}


\* NewReadinessBarrier(parent, cfg)
NewReadinessBarrier ==
  /\ running = FALSE
  /\ readinessFlag = FALSE
  /\ signals = <<>>
  /\ barrierParent = FALSE
  /\ runCancel = NoCtx
  /\ barrierWg = 0
  /\ nextCtx = 0
  /\ runDone = [c \in Runs |-> FALSE]
  /\ callerPc = [c \in Callers |-> "idle"]
  /\ callerCtx = [c \in Callers |-> NoCtx]
  /\ listenerPc = [c \in Runs |-> "none"]
  /\ listenerSig = [c \in Runs |-> NoSignal]
  /\ senderPc = [d \in Senders |-> "idle"]
  /\ senderSig = [d \in Senders |-> NoSignal]
  /\ senderDone = [d \in Senders |-> FALSE]
  /\ lastRefused = "none"
  /\ sinceStop = "never"

LockerWatchdogInit ==
  /\ store = [k \in StoreKeys |-> NoLock]
  /\ lastCall = NoCall
  /\ granted = [key \in ClientKeys |-> {}]
  /\ pc = [e \in Elections |-> "idle"]
  /\ cfgName = [e \in Elections |-> ""]
  /\ cfgExpiration = [e \in Elections |-> DefaultLeaderExpiration]
  /\ cancelled = [e \in Elections |-> FALSE]
  /\ isLeader = [e \in Elections |-> FALSE]
  /\ sending = [e \in Elections |-> 0]
  /\ after = [e \in Elections |-> "loop"]
  /\ chan = [e \in Elections |-> "none"]
  /\ watcher = [e \in Elections |-> <<>>]
  /\ emitted = [e \in Elections |-> <<>>]
  /\ changes = [e \in Elections |-> <<>>]
  /\ called = [e \in Elections |-> FALSE]
  /\ lastErr = [e \in Elections |-> FALSE]
  /\ elCall = [e \in Elections |-> NoCall]
  /\ lapsed = "no"

\* the largest cfg.Expiration passed to Elect when the interval is looked at
MaxExpiration == 60

\* the values of cfg.Expiration passed to Elect
ExpirationInputs == -1..MaxExpiration

\* an Elect call with cfg.Expiration = d whose goroutine has yet to make its ticker
TickerIdle(d) ==
  /\ tickerCfg = d
  /\ tickerPc = "elect"
  /\ renewIntervalJitter = 0

Init ==
  /\ LockerWatchdogInit
  /\ SchedulerIdle(NewJobScheduler(1))
  /\ AppIdle
  /\ NewReadinessBarrier
  /\ TickerIdle(0)

\* the locker used directly, by any number of callers
LockerNext ==
  \/ \E key \in ClientKeys, value \in ClientTokens, d \in ClientExpirations, up \in BOOLEAN :
       CallLock(key, value, d, up)
  \/ \E key \in ClientKeys, value \in ClientTokens, up \in BOOLEAN :
       CallUnlock(key, value, up)
  \/ \E key \in ClientKeys, value \in ClientTokens, d \in ClientExpirations, up \in BOOLEAN :
       CallExtendLockTTL(key, value, d, up)
  \/ TimePasses

LockerSpec == Init /\ [][LockerNext]_vars

\* ------------------------------------------------------------------------
\* package watchdog: RedisWatchdogLeader
\* ------------------------------------------------------------------------
\* the locker call is over and decides a change of isLeader: the goroutine
\* goes on to the assignment and to send(event), and continues at next
BeginChange(e, event, next) ==
  /\ pc' = [pc EXCEPT ![e] = "set"]
  /\ sending' = [sending EXCEPT ![e] = event]
  /\ after' = [after EXCEPT ![e] = next]

\* isLeader = true before send(TakenAcquire), isLeader = false before
\* send(LostAcquire); the change is recorded as the event that reports it
SetLeader(e) ==
  /\ pc[e] = "set"
  /\ isLeader' = [isLeader EXCEPT ![e] = (sending[e] = TakenAcquire)]
  /\ changes' = [changes EXCEPT ![e] = Append(@, sending[e])]
  /\ pc' = [pc EXCEPT ![e] = "send"]
  /\ UNCHANGED <<store, lockerVars, cfgName, cfgExpiration, cancelled, sending, after,
                 chan, watcher, emitted, called, lastErr, elCall, lapsed>>
  /\ UNCHANGED outsideWatchdog

\* the goroutine function returns: the deferred close(watcher) runs
Return(e) ==
  /\ pc' = [pc EXCEPT ![e] = "done"]
  /\ chan' = [chan EXCEPT ![e] = "closed"]

\* Elect that makes the channel before it looks at the name
Elect_lateCheck(e, electionName, expiration) ==
  /\ pc[e] = "idle"
  /\ chan' = [chan EXCEPT ![e] = "open"]
  /\ IF electionName = ""
       THEN /\ pc' = [pc EXCEPT ![e] = "panicked"]
            /\ UNCHANGED <<cfgName, cfgExpiration>>
       ELSE /\ cfgName' = [cfgName EXCEPT ![e] = electionName]
            /\ cfgExpiration' = [cfgExpiration EXCEPT ![e] =
                 IF expiration <= 0 THEN DefaultLeaderExpiration ELSE expiration]
            /\ pc' = [pc EXCEPT ![e] = "spawned"]
  /\ UNCHANGED <<store, lockerVars, cancelled, isLeader, sending, after, watcher,
                 emitted, changes, called, lastErr, elCall, lapsed>>
  /\ UNCHANGED outsideWatchdog

\* Elect(cfg) up to the return of the channel
Elect(e, electionName, expiration) ==
  /\ pc[e] = "idle"
  /\ IF electionName = ""
       THEN /\ pc' = [pc EXCEPT ![e] = "panicked"]
            /\ UNCHANGED <<cfgName, cfgExpiration, chan>>
       ELSE /\ cfgName' = [cfgName EXCEPT ![e] = electionName]
            /\ cfgExpiration' = [cfgExpiration EXCEPT ![e] =
                 IF expiration <= 0 THEN DefaultLeaderExpiration ELSE expiration]
            /\ chan' = [chan EXCEPT ![e] = "open"]
            /\ pc' = [pc EXCEPT ![e] = "spawned"]
  /\ UNCHANGED <<store, lockerVars, cancelled, isLeader, sending, after, watcher,
                 emitted, changes, called, lastErr, elCall, lapsed>>
  /\ UNCHANGED outsideWatchdog

\* GoRecover: the new goroutine returns at once when ctx is already done,
\* without calling fn, otherwise it calls fn
GoRecover(e) ==
  /\ pc[e] = "spawned"
  /\ pc' = [pc EXCEPT ![e] = IF cancelled[e] THEN "done" ELSE "lock0"]
  /\ UNCHANGED <<store, lockerVars, cfgName, cfgExpiration, cancelled, isLeader,
                 sending, after, chan, watcher, emitted, changes, called, lastErr, elCall,
                 lapsed>>
  /\ UNCHANGED outsideWatchdog

\* the first Lock with an error of the store ending the goroutine
ElectFirstLock_fatalErr(e, up) ==
  /\ pc[e] = "lock0"
  /\ LET r == Lock(store, cancelled[e], up, cfgName[e], Token(e), cfgExpiration[e]) IN
       /\ store' = r.store
       /\ lastErr' = [lastErr EXCEPT ![e] = r.err]
       /\ elCall' = [elCall EXCEPT ![e] = [op |-> "Lock", ok |-> r.ok, up |-> up]]
       /\ IF r.ok
            THEN BeginChange(e, TakenAcquire, "loop") /\ UNCHANGED chan
            ELSE /\ IF r.err THEN Return(e)
                              ELSE pc' = [pc EXCEPT ![e] = "loop"] /\ UNCHANGED chan
                 /\ UNCHANGED <<sending, after>>
  /\ called' = [called EXCEPT ![e] = TRUE]
  /\ UNCHANGED <<lockerVars, cfgName, cfgExpiration, cancelled, isLeader, changes,
                 watcher, emitted, lapsed>>
  /\ UNCHANGED outsideWatchdog

\* the Lock made before the loop
ElectFirstLock(e, up) ==
  /\ pc[e] = "lock0"
  /\ LET r == Lock(store, cancelled[e], up, cfgName[e], Token(e), cfgExpiration[e]) IN
       /\ store' = r.store
       /\ lastErr' = [lastErr EXCEPT ![e] = r.err]
       /\ elCall' = [elCall EXCEPT ![e] = [op |-> "Lock", ok |-> r.ok, up |-> up]]
       /\ IF r.ok
            THEN BeginChange(e, TakenAcquire, "loop")
            ELSE /\ pc' = [pc EXCEPT ![e] = "loop"]
                 /\ UNCHANGED <<sending, after>>
  /\ called' = [called EXCEPT ![e] = TRUE]
  /\ UNCHANGED <<lockerVars, cfgName, cfgExpiration, cancelled, isLeader, changes,
                 chan, watcher, emitted, lapsed>>
  /\ UNCHANGED outsideWatchdog

\* send: case <-ctx.Done()
SendCtxDone(e) ==
  /\ pc[e] = "send"
  /\ cancelled[e]
  /\ IF after[e] = "return"
       THEN Return(e)
       ELSE pc' = [pc EXCEPT ![e] = "loop"] /\ UNCHANGED chan
  /\ UNCHANGED <<store, lockerVars, cfgName, cfgExpiration, cancelled, isLeader,
                 sending, after, watcher, emitted, changes, called, lastErr, elCall, lapsed>>
  /\ UNCHANGED outsideWatchdog

\* send: case watcher <- event
SendEvent(e) ==
  /\ pc[e] = "send"
  /\ Len(watcher[e]) < WatcherCap
  /\ watcher' = [watcher EXCEPT ![e] = Append(@, sending[e])]
  /\ emitted' = [emitted EXCEPT ![e] = Append(@, sending[e])]
  /\ IF after[e] = "return"
       THEN Return(e)
       ELSE pc' = [pc EXCEPT ![e] = "loop"] /\ UNCHANGED chan
  /\ UNCHANGED <<store, lockerVars, cfgName, cfgExpiration, cancelled, isLeader,
                 sending, after, changes, called, lastErr, elCall, lapsed>>
  /\ UNCHANGED outsideWatchdog

\* send that gives the event up when the buffer is full
send_dropWhenFull(e) ==
  \/ SendCtxDone(e)
  \/ SendEvent(e)
  \/ /\ pc[e] = "send"
     /\ Len(watcher[e]) = WatcherCap
     /\ IF after[e] = "return"
          THEN Return(e)
          ELSE pc' = [pc EXCEPT ![e] = "loop"] /\ UNCHANGED chan
     /\ UNCHANGED <<store, lockerVars, cfgName, cfgExpiration, cancelled, isLeader,
                    sending, after, watcher, emitted, changes, called, lastErr, elCall, lapsed,
                    outsideWatchdog>>

\* send := func(event int) { select { case <-ctx.Done(): return; case watcher <- event: } }
send(e) == SendCtxDone(e) \/ SendEvent(e)

\* the ctx.Done() case with Unlock called with the election's ctx
LoopCtxDone_ctx(e, up) ==
  /\ pc[e] = "loop"
  /\ cancelled[e]
  /\ IF isLeader[e]
       THEN LET r == Unlock(store, cancelled[e], up, cfgName[e], Token(e)) IN
              /\ store' = r.store
              /\ elCall' = [elCall EXCEPT ![e] = [op |-> "Unlock", ok |-> r.ok, up |-> up]]
              /\ BeginChange(e, LostAcquire, "return")
              /\ called' = [called EXCEPT ![e] = TRUE]
       ELSE UNCHANGED <<store, pc, sending, after, called, elCall>>
  /\ UNCHANGED <<lockerVars, cfgName, cfgExpiration, cancelled, isLeader, changes,
                 chan, watcher, emitted, lastErr, lapsed>>
  /\ UNCHANGED outsideWatchdog

\* the loop's select: case <-ctx.Done()
LoopCtxDone(e, up) ==
  /\ pc[e] = "loop"
  /\ cancelled[e]
  /\ IF isLeader[e]
       THEN LET r == Unlock(store, FALSE, up, cfgName[e], Token(e)) IN
              /\ store' = r.store
              /\ elCall' = [elCall EXCEPT ![e] = [op |-> "Unlock", ok |-> r.ok, up |-> up]]
              /\ BeginChange(e, LostAcquire, "return")
              /\ called' = [called EXCEPT ![e] = TRUE]
       ELSE UNCHANGED <<store, pc, sending, after, called, elCall>>
  /\ UNCHANGED <<lockerVars, cfgName, cfgExpiration, cancelled, isLeader, changes,
                 chan, watcher, emitted, lastErr, lapsed>>
  /\ UNCHANGED outsideWatchdog

LoopTick_lockAsLeader(e, up) ==
  /\ pc[e] = "loop"
  /\ LET r == Lock(store, cancelled[e], up, cfgName[e], Token(e), cfgExpiration[e]) IN
       /\ store' = r.store
       /\ lastErr' = [lastErr EXCEPT ![e] = r.err]
       /\ elCall' = [elCall EXCEPT ![e] = [op |-> "Lock", ok |-> r.ok, up |-> up]]
       /\ IF ~isLeader[e] /\ r.ok
            THEN BeginChange(e, TakenAcquire, "loop")
            ELSE IF isLeader[e] /\ ~r.ok
                   THEN BeginChange(e, LostAcquire, "loop")
                   ELSE UNCHANGED <<pc, sending, after>>
  /\ called' = [called EXCEPT ![e] = TRUE]
  /\ UNCHANGED <<lockerVars, cfgName, cfgExpiration, cancelled, isLeader, changes,
                 chan, watcher, emitted, lapsed>>
  /\ UNCHANGED outsideWatchdog

\* the loop's select: case <-ticker.C
LoopTick(e, up) ==
  /\ pc[e] = "loop"
  /\ IF ~isLeader[e]
       THEN LET r == Lock(store, cancelled[e], up, cfgName[e], Token(e), cfgExpiration[e]) IN
              /\ store' = r.store
              /\ lastErr' = [lastErr EXCEPT ![e] = r.err]
              /\ elCall' = [elCall EXCEPT ![e] = [op |-> "Lock", ok |-> r.ok, up |-> up]]
              /\ IF r.ok
                   THEN BeginChange(e, TakenAcquire, "loop")
                   ELSE UNCHANGED <<pc, sending, after>>
       ELSE LET r == ExtendLockTTL(store, cancelled[e], up, cfgName[e], Token(e),
                                   cfgExpiration[e]) IN
              /\ store' = r.store
              /\ lastErr' = [lastErr EXCEPT ![e] = r.err]
              /\ elCall' = [elCall EXCEPT ![e] = [op |-> "ExtendLockTTL", ok |-> r.ok, up |-> up]]
              /\ IF ~r.ok
                   THEN BeginChange(e, LostAcquire, "loop")
                   ELSE UNCHANGED <<pc, sending, after>>
  /\ called' = [called EXCEPT ![e] = TRUE]
  /\ UNCHANGED <<lockerVars, cfgName, cfgExpiration, cancelled, isLeader, changes,
                 chan, watcher, emitted, lapsed>>
  /\ UNCHANGED outsideWatchdog

\* RedisWatchdogLeader.Stop: rwl.cancel()
Stop(e) ==
  /\ ~cancelled[e]
  /\ cancelled' = [cancelled EXCEPT ![e] = TRUE]
  /\ UNCHANGED <<store, lockerVars, pc, cfgName, cfgExpiration, isLeader, sending,
                 after, chan, watcher, emitted, changes, called, lastErr, elCall, lapsed>>
  /\ UNCHANGED outsideWatchdog

\* the consumer of the returned channel receives one event
Receive(e) ==
  /\ Len(watcher[e]) > 0
  /\ watcher' = [watcher EXCEPT ![e] = Tail(@)]
  /\ UNCHANGED <<store, lockerVars, pc, cfgName, cfgExpiration, cancelled, isLeader,
                 sending, after, chan, emitted, changes, called, lastErr, elCall, lapsed>>
  /\ UNCHANGED outsideWatchdog

\* one step of the election goroutine; it ticks while isLeader has changed
\* fewer than bound times
Goroutine(e, bound) ==
  \/ GoRecover(e)
  \/ \E up \in BOOLEAN : ElectFirstLock(e, up)
  \/ SetLeader(e)
  \/ send(e)
  \/ \E up \in BOOLEAN : LoopCtxDone(e, up)
  \/ \E up \in BOOLEAN : Len(changes[e]) < bound /\ LoopTick(e, up)

\* two elections compete for the same name
Next ==
  \/ \E e \in Elections, n \in ElectionNames, d \in ConfigExpirations : Elect(e, n, d)
  \/ \E e \in Elections : Goroutine(e, MaxDuelEvents)
  \/ \E e \in Elections : Stop(e)
  \/ \E e \in Elections : Receive(e)
  \/ TimePasses

Spec == Init /\ [][Next]_vars

\* the scheduler runs every goroutine that can take a step
FairSpec == Spec /\ \A e \in Elections : WF_vars(Goroutine(e, MaxDuelEvents))

\* one election runs alone, long enough to fill the watcher channel
SoloNext ==
  \/ \E n \in ElectionNames, d \in ConfigExpirations : Elect(1, n, d)
  \/ Goroutine(1, MaxEvents)
  \/ Stop(1)
  \/ Receive(1)
  \/ TimePasses

SoloSpec == Init /\ [][SoloNext]_vars

\* ------------------------------------------------------------------------
\* package watchdog: the renewal interval
\* ------------------------------------------------------------------------
\* if cfg.Expiration <= 0 { cfg.Expiration = DefaultLeaderExpiration }
Expiration(d) == IF d <= 0 THEN DefaultLeaderExpiration ELSE d

\* rand.Int63n(n): the values it returns; it panics when n <= 0
Int63n(n) == 0..(n - 1)

Jitter_third(expiration) == Int63n(expiration \div 3)

\* rand.Int63n(int64(cfg.Expiration/10))
Jitter(expiration) == Int63n(expiration \div 10)

\* the goroutine's renewIntervalJitter := cfg.Expiration/3 + rand.Int63n(...)
\* and time.NewTicker(renewIntervalJitter)
NewTicker ==
  /\ tickerPc = "elect"
  /\ LET expiration == Expiration(tickerCfg) IN
       IF expiration \div 10 <= 0
         THEN tickerPc' = "panicked" /\ UNCHANGED renewIntervalJitter
         ELSE /\ \E rnd \in Jitter(expiration) :
                   renewIntervalJitter' = expiration \div 3 + rnd
              /\ tickerPc' = "ticking"
  /\ UNCHANGED <<tickerCfg, outsideTicker>>

\* an Elect call with any Expiration
TickerInit ==
  /\ LockerWatchdogInit
  /\ SchedulerIdle(NewJobScheduler(1))
  /\ AppIdle
  /\ NewReadinessBarrier
  /\ \E d \in ExpirationInputs : TickerIdle(d)

TickerSpec == TickerInit /\ [][NewTicker]_vars

\* ------------------------------------------------------------------------
\* JobScheduler (package scheduler)
\* ------------------------------------------------------------------------
\* the names in s.goroutines
Registered == {j \in Jobs : jobs[j] # NoJob}

\* the job an Add call with configuration cfg stores
NewJob(cfg) == [stopMode |-> cfg.stopMode]

Add_replace(cfg) ==
  /\ ~muHeld
  /\ jobs' = IF started THEN jobs ELSE [jobs EXCEPT ![cfg.name] = NewJob(cfg)]
  /\ lastOp' = [op |-> "Add", name |-> cfg.name, stopMode |-> cfg.stopMode, err |-> started]
  /\ UNCHANGED <<rate, rateUsed, started, muHeld, jctx, jctxDone, tickerStopped, wg,
                 parentDone, startPc, startTodo, stopPc, stopTodo, stopCur, gpc, glocal,
                 execParent, execCtx, stopDone, awaited>>
  /\ UNCHANGED outsideScheduler

\* Add(cfg), the whole call under s.mu
Add(cfg) ==
  /\ ~muHeld
  /\ LET err == started \/ jobs[cfg.name] # NoJob
     IN  /\ jobs' = IF err THEN jobs ELSE [jobs EXCEPT ![cfg.name] = NewJob(cfg)]
         /\ lastOp' = [op |-> "Add", name |-> cfg.name, stopMode |-> cfg.stopMode,
                       err |-> err]
  /\ UNCHANGED <<rate, rateUsed, started, muHeld, jctx, jctxDone, tickerStopped, wg,
                 parentDone, startPc, startTodo, stopPc, stopTodo, stopCur, gpc, glocal,
                 execParent, execCtx, stopDone, awaited>>
  /\ UNCHANGED outsideScheduler

SchedulerStart_noCheck ==
  /\ ~muHeld
  /\ startPc = "idle" \/ started
  /\ lastOp' = [op |-> "Start", was |-> started]
  /\ started' = TRUE
  /\ startTodo' = Registered
  /\ startPc' = IF Registered = {} THEN "idle" ELSE "jobs"
  /\ stopDone' = FALSE
  /\ UNCHANGED <<rate, rateUsed, muHeld, jobs, jctx, jctxDone, tickerStopped, wg,
                 parentDone, stopPc, stopTodo, stopCur, gpc, glocal, execParent, execCtx,
                 awaited>>
  /\ UNCHANGED outsideScheduler

\* the function Start(ctx) returns, from s.mu.Lock() to s.mu.Unlock(): the
\* started check, started = true and the copy of the jobs
SchedulerStart ==
  /\ ~muHeld
  /\ startPc = "idle" \/ started
  /\ lastOp' = [op |-> "Start", was |-> started]
  /\ IF started
       THEN UNCHANGED <<started, startPc, startTodo, stopDone>>
       ELSE /\ started' = TRUE
            /\ startTodo' = Registered
            /\ startPc' = IF Registered = {} THEN "idle" ELSE "jobs"
            /\ stopDone' = FALSE
  /\ UNCHANGED <<rate, rateUsed, muHeld, jobs, jctx, jctxDone, tickerStopped, wg,
                 parentDone, stopPc, stopTodo, stopCur, gpc, glocal, execParent, execCtx,
                 awaited>>
  /\ UNCHANGED outsideScheduler

\* one round of the loop of Start over the copied jobs, which runs without
\* s.mu: a new ctx, cancel and ticker for job j, wg.Add(1) and the go statement
StartJob(j) ==
  /\ startPc = "jobs"
  /\ j \in startTodo
  /\ LET k == jctx[j] + 1
     IN  /\ jctx' = [jctx EXCEPT ![j] = k]
         /\ jctxDone' = IF parentDone THEN [jctxDone EXCEPT ![j] = @ \cup {k}]
                                      ELSE jctxDone
         /\ gpc' = [gpc EXCEPT ![<<j, k>>] = "spawned"]
  /\ wg' = [wg EXCEPT ![j] = @ + 1]
  /\ startTodo' = startTodo \ {j}
  /\ startPc' = IF startTodo' = {} THEN "idle" ELSE "jobs"
  /\ lastOp' = NoOp
  /\ UNCHANGED <<rate, rateUsed, started, muHeld, jobs, tickerStopped, parentDone,
                 stopPc, stopTodo, stopCur, glocal, execParent, execCtx, stopDone,
                 awaited>>
  /\ UNCHANGED outsideScheduler

\* the ctx of the running executions after generation k of job j's ctx is
\* cancelled: cancellation reaches the contexts derived from it
Propagate(j, k) ==
  [g \in JobGoroutines |->
     IF g[1] = j /\ execParent[g] = k /\ execCtx[g] = "live" THEN "cancelled"
                                                             ELSE execCtx[g]]

\* the owner of the ctx passed to Start cancels it: every job ctx derived
\* from it, and every execution ctx derived from those, is cancelled
CancelStartCtx ==
  /\ ~parentDone
  /\ parentDone' = TRUE
  /\ jctxDone' = [j \in Jobs |-> 1..jctx[j]]
  /\ execCtx' = [g \in JobGoroutines |->
                   IF execParent[g] \in Gens /\ execCtx[g] = "live" THEN "cancelled"
                                                                   ELSE execCtx[g]]
  /\ lastOp' = NoOp
  /\ UNCHANGED <<rate, rateUsed, started, muHeld, jobs, jctx, tickerStopped, wg,
                 startPc, startTodo, stopPc, stopTodo, stopCur, gpc, glocal, execParent,
                 stopDone, awaited>>
  /\ UNCHANGED outsideScheduler

\* the function Stop() returns, from s.mu.Lock() to started = false; a call
\* that finds the scheduler not started unlocks and returns
SchedulerStop ==
  /\ ~muHeld
  /\ stopPc = "idle" \/ ~started
  /\ lastOp' = [op |-> "Stop", was |-> started]
  /\ IF ~started
       THEN UNCHANGED <<started, muHeld, stopPc, stopTodo, stopDone>>
       ELSE /\ started' = FALSE
            /\ stopTodo' = Registered
            /\ IF Registered = {}
                 THEN muHeld' = FALSE /\ stopPc' = "idle" /\ stopDone' = TRUE
                 ELSE muHeld' = TRUE /\ stopPc' = "cancel" /\ UNCHANGED stopDone
  /\ UNCHANGED <<rate, rateUsed, jobs, jctx, jctxDone, tickerStopped, wg, parentDone,
                 startPc, startTodo, stopCur, gpc, glocal, execParent, execCtx, awaited>>
  /\ UNCHANGED outsideScheduler

\* the first loop of Stop, under s.mu: j.cancel(), which is a call of a nil
\* func, so a panic that leaves s.mu locked, when Start has not set job j up
StopCancel(j) ==
  /\ stopPc = "cancel"
  /\ stopCur = ""
  /\ j \in stopTodo
  /\ IF jctx[j] = 0
       THEN /\ stopPc' = "panicked"
            /\ UNCHANGED <<jctxDone, execCtx, stopCur, awaited>>
       ELSE /\ jctxDone' = [jctxDone EXCEPT ![j] = @ \cup {jctx[j]}]
            /\ execCtx' = Propagate(j, jctx[j])
            /\ stopCur' = j
            /\ awaited' = awaited \cup {g \in JobGoroutines : g[1] = j /\ gpc[g] = "running"}
            /\ UNCHANGED stopPc
  /\ lastOp' = NoOp
  /\ UNCHANGED <<rate, rateUsed, started, muHeld, jobs, jctx, tickerStopped, wg,
                 parentDone, startPc, startTodo, stopTodo, gpc, glocal, execParent,
                 stopDone>>
  /\ UNCHANGED outsideScheduler

\* the first loop of Stop, under s.mu and j.rmu: j.ticker.Stop(); after the
\* last job, the copy of the jobs and s.mu.Unlock()
StopTicker(j) ==
  /\ stopPc = "cancel"
  /\ stopCur = j
  /\ tickerStopped' = [tickerStopped EXCEPT ![j] = @ \cup {jctx[j]}]
  /\ stopCur' = ""
  /\ IF stopTodo = {j}
       THEN muHeld' = FALSE /\ stopPc' = "wait" /\ stopTodo' = Registered
       ELSE stopTodo' = stopTodo \ {j} /\ UNCHANGED <<muHeld, stopPc>>
  /\ lastOp' = NoOp
  /\ UNCHANGED <<rate, rateUsed, started, jobs, jctx, jctxDone, wg, parentDone, startPc,
                 startTodo, gpc, glocal, execParent, execCtx, stopDone, awaited>>
  /\ UNCHANGED outsideScheduler

StopWait_noWait(j) ==
  /\ stopPc = "wait"
  /\ j \in stopTodo
  /\ IF stopTodo = {j}
       THEN stopPc' = "idle" /\ stopTodo' = {} /\ stopDone' = ~started
       ELSE stopTodo' = stopTodo \ {j} /\ UNCHANGED <<stopPc, stopDone>>
  /\ lastOp' = NoOp
  /\ UNCHANGED <<rate, rateUsed, started, muHeld, jobs, jctx, jctxDone, tickerStopped,
                 wg, parentDone, startPc, startTodo, stopCur, gpc, glocal, execParent,
                 execCtx, awaited>>
  /\ UNCHANGED outsideScheduler

\* the second loop of Stop, without s.mu: j.wg.Wait(); after the last job
\* Stop returns
StopWait(j) ==
  /\ stopPc = "wait"
  /\ j \in stopTodo
  /\ wg[j] = 0
  /\ IF stopTodo = {j}
       THEN stopPc' = "idle" /\ stopTodo' = {} /\ stopDone' = ~started
       ELSE stopTodo' = stopTodo \ {j} /\ UNCHANGED <<stopPc, stopDone>>
  /\ lastOp' = NoOp
  /\ UNCHANGED <<rate, rateUsed, started, muHeld, jobs, jctx, jctxDone, tickerStopped,
                 wg, parentDone, startPc, startTodo, stopCur, gpc, glocal, execParent,
                 execCtx, awaited>>
  /\ UNCHANGED outsideScheduler

\* utils.GoRecover around run: the goroutine returns without calling run, so
\* without j.wg.Done(), when the ctx passed to Start is already cancelled
GoRecoverRun(g) ==
  /\ gpc[g] = "spawned"
  /\ gpc' = [gpc EXCEPT ![g] = IF parentDone THEN "none" ELSE "loop"]
  /\ lastOp' = NoOp
  /\ UNCHANGED <<rate, rateUsed, started, muHeld, jobs, jctx, jctxDone, tickerStopped,
                 wg, parentDone, startPc, startTodo, stopPc, stopTodo, stopCur, glocal,
                 execParent, execCtx, stopDone, awaited>>
  /\ UNCHANGED outsideScheduler

\* run, the top of the loop: ctx and ticker are read under j.rmu.RLock()
runRead(g) ==
  /\ gpc[g] = "loop"
  /\ glocal' = [glocal EXCEPT ![g] = jctx[g[1]]]
  /\ gpc' = [gpc EXCEPT ![g] = "select"]
  /\ lastOp' = NoOp
  /\ UNCHANGED <<rate, rateUsed, started, muHeld, jobs, jctx, jctxDone, tickerStopped,
                 wg, parentDone, startPc, startTodo, stopPc, stopTodo, stopCur,
                 execParent, execCtx, stopDone, awaited>>
  /\ UNCHANGED outsideScheduler

\* run, case <-ctx.Done(): return, and the deferred j.wg.Done()
runCtxDone(g) ==
  /\ gpc[g] = "select"
  /\ glocal[g] \in jctxDone[g[1]]
  /\ gpc' = [gpc EXCEPT ![g] = "none"]
  /\ glocal' = [glocal EXCEPT ![g] = 0]
  /\ wg' = [wg EXCEPT ![g[1]] = @ - 1]
  /\ lastOp' = NoOp
  /\ UNCHANGED <<rate, rateUsed, started, muHeld, jobs, jctx, jctxDone, tickerStopped,
                 parentDone, startPc, startTodo, stopPc, stopTodo, stopCur, execParent,
                 execCtx, stopDone, awaited>>
  /\ UNCHANGED outsideScheduler

\* run, case <-ticker.C: a tick of the ticker read at the loop's top, which
\* ticks until it is stopped; exec is called
runTick(g) ==
  /\ gpc[g] = "select"
  /\ glocal[g] \notin tickerStopped[g[1]]
  /\ gpc' = [gpc EXCEPT ![g] = "exec"]
  /\ lastOp' = NoOp
  /\ UNCHANGED <<rate, rateUsed, started, muHeld, jobs, jctx, jctxDone, tickerStopped,
                 wg, parentDone, startPc, startTodo, stopPc, stopTodo, stopCur, glocal,
                 execParent, execCtx, stopDone, awaited>>
  /\ UNCHANGED outsideScheduler

\* exec, the first select, case <-j.ctx.Done(): return j.ctx.Err(), which
\* run does not log
execCtxDone(g) ==
  /\ gpc[g] = "exec"
  /\ jctx[g[1]] \in jctxDone[g[1]]
  /\ gpc' = [gpc EXCEPT ![g] = "loop"]
  /\ lastOp' = NoOp
  /\ UNCHANGED <<rate, rateUsed, started, muHeld, jobs, jctx, jctxDone, tickerStopped,
                 wg, parentDone, startPc, startTodo, stopPc, stopTodo, stopCur, glocal,
                 execParent, execCtx, stopDone, awaited>>
  /\ UNCHANGED outsideScheduler

execAcquire_noRate(g) ==
  /\ gpc[g] = "exec"
  /\ rateUsed' = rateUsed + 1
  /\ gpc' = [gpc EXCEPT ![g] = "check"]
  /\ lastOp' = NoOp
  /\ UNCHANGED <<rate, started, muHeld, jobs, jctx, jctxDone, tickerStopped, wg,
                 parentDone, startPc, startTodo, stopPc, stopTodo, stopCur, glocal,
                 execParent, execCtx, stopDone, awaited>>
  /\ UNCHANGED outsideScheduler

\* exec, the first select, case s.rate <- struct{}{}: a slot of the rate
\* channel is taken when one is free
execAcquire(g) ==
  /\ gpc[g] = "exec"
  /\ rateUsed < rate
  /\ rateUsed' = rateUsed + 1
  /\ gpc' = [gpc EXCEPT ![g] = "check"]
  /\ lastOp' = NoOp
  /\ UNCHANGED <<rate, started, muHeld, jobs, jctx, jctxDone, tickerStopped, wg,
                 parentDone, startPc, startTodo, stopPc, stopTodo, stopCur, glocal,
                 execParent, execCtx, stopDone, awaited>>
  /\ UNCHANGED outsideScheduler

execContext_fromBackground(j) == Background

execContext_fromJob(j) == jctx[j]

\* exec, the switch on j.stopMode: the parent of the ctx given to j.fn
execContext(j) ==
  IF jobs[j].stopMode = StopImmediate THEN jctx[j] ELSE Background

\* exec after the slot is taken: the j.ctx.Err() check, which releases the
\* slot and returns when j.ctx is cancelled, then context.WithTimeout on the
\* parent the stop mode chooses and the call of j.fn
execCheck(g) ==
  /\ gpc[g] = "check"
  /\ IF jctx[g[1]] \in jctxDone[g[1]]
       THEN /\ rateUsed' = rateUsed - 1
            /\ gpc' = [gpc EXCEPT ![g] = "loop"]
            /\ UNCHANGED <<execParent, execCtx>>
       ELSE /\ gpc' = [gpc EXCEPT ![g] = "running"]
            /\ execParent' = [execParent EXCEPT ![g] = execContext(g[1])]
            /\ execCtx' = [execCtx EXCEPT ![g] = "live"]
            /\ UNCHANGED rateUsed
  /\ lastOp' = NoOp
  /\ UNCHANGED <<rate, started, muHeld, jobs, jctx, jctxDone, tickerStopped, wg,
                 parentDone, startPc, startTodo, stopPc, stopTodo, stopCur, glocal,
                 stopDone, awaited>>
  /\ UNCHANGED outsideScheduler

\* j.deadline passes while j.fn runs: the ctx given to j.fn times out
execDeadline(g) ==
  /\ gpc[g] = "running"
  /\ execCtx[g] = "live"
  /\ execCtx' = [execCtx EXCEPT ![g] = "deadline"]
  /\ lastOp' = NoOp
  /\ UNCHANGED <<rate, rateUsed, started, muHeld, jobs, jctx, jctxDone, tickerStopped,
                 wg, parentDone, startPc, startTodo, stopPc, stopTodo, stopCur, gpc,
                 glocal, execParent, stopDone, awaited>>
  /\ UNCHANGED outsideScheduler

\* j.fn returns err, exec's deferred calls release the slot, and run logs a
\* non-nil error at its next step
execReturn(g, err) ==
  /\ gpc[g] = "running"
  /\ rateUsed' = rateUsed - 1
  /\ gpc' = [gpc EXCEPT ![g] = IF err THEN "failed" ELSE "loop"]
  /\ execParent' = [execParent EXCEPT ![g] = -1]
  /\ execCtx' = [execCtx EXCEPT ![g] = "none"]
  /\ awaited' = awaited \ {g}
  /\ lastOp' = NoOp
  /\ UNCHANGED <<rate, started, muHeld, jobs, jctx, jctxDone, tickerStopped, wg,
                 parentDone, startPc, startTodo, stopPc, stopTodo, stopCur, glocal,
                 stopDone>>
  /\ UNCHANGED outsideScheduler

\* j.fn panics
execPanic(g) ==
  /\ gpc[g] = "running"
  /\ gpc' = [gpc EXCEPT ![g] = "panicking"]
  /\ lastOp' = NoOp
  /\ UNCHANGED <<rate, rateUsed, started, muHeld, jobs, jctx, jctxDone, tickerStopped,
                 wg, parentDone, startPc, startTodo, stopPc, stopTodo, stopCur, glocal,
                 execParent, execCtx, stopDone, awaited>>
  /\ UNCHANGED outsideScheduler

execRecover_rethrown(g) ==
  /\ gpc[g] = "panicking"
  /\ rateUsed' = rateUsed - 1
  /\ gpc' = [gpc EXCEPT ![g] = "none"]
  /\ glocal' = [glocal EXCEPT ![g] = 0]
  /\ wg' = [wg EXCEPT ![g[1]] = @ - 1]
  /\ execParent' = [execParent EXCEPT ![g] = -1]
  /\ execCtx' = [execCtx EXCEPT ![g] = "none"]
  /\ awaited' = awaited \ {g}
  /\ lastOp' = NoOp
  /\ UNCHANGED <<rate, started, muHeld, jobs, jctx, jctxDone, tickerStopped,
                 parentDone, startPc, startTodo, stopPc, stopTodo, stopCur, stopDone>>
  /\ UNCHANGED outsideScheduler

\* exec's deferred calls while j.fn's panic unwinds: cancel(), recover(),
\* which sets err to "panic in job", and the release of the slot; exec
\* returns err to run
execRecover(g) ==
  /\ gpc[g] = "panicking"
  /\ rateUsed' = rateUsed - 1
  /\ gpc' = [gpc EXCEPT ![g] = "recovered"]
  /\ execParent' = [execParent EXCEPT ![g] = -1]
  /\ execCtx' = [execCtx EXCEPT ![g] = "none"]
  /\ awaited' = awaited \ {g}
  /\ lastOp' = NoOp
  /\ UNCHANGED <<rate, started, muHeld, jobs, jctx, jctxDone, tickerStopped, wg,
                 parentDone, startPc, startTodo, stopPc, stopTodo, stopCur, glocal,
                 stopDone>>
  /\ UNCHANGED outsideScheduler

\* run logs the error exec returned and loops
runLogError(g) ==
  /\ gpc[g] \in {"failed", "recovered"}
  /\ gpc' = [gpc EXCEPT ![g] = "loop"]
  /\ lastOp' = NoOp
  /\ UNCHANGED <<rate, rateUsed, started, muHeld, jobs, jctx, jctxDone, tickerStopped,
                 wg, parentDone, startPc, startTodo, stopPc, stopTodo, stopCur, glocal,
                 execParent, execCtx, stopDone, awaited>>
  /\ UNCHANGED outsideScheduler

\* the steps of the goroutine of one job
JobGoroutine(g) ==
  \/ GoRecoverRun(g)
  \/ runRead(g)
  \/ runCtxDone(g)
  \/ runTick(g)
  \/ execCtxDone(g)
  \/ execAcquire(g)
  \/ execCheck(g)
  \/ execDeadline(g)
  \/ \E err \in BOOLEAN : execReturn(g, err)
  \/ execPanic(g)
  \/ execRecover(g)
  \/ runLogError(g)

JobConfigurations == [name : Jobs, stopMode : StopModes]

\* the job of the scheduler that is restarted
SoloJobs == {"A"}

\* a scheduler with one job: callers of Add, Start and Stop at any time, the
\* owner of the ctx passed to Start, and the job's goroutines
SchedulerNext ==
  \/ \E cfg \in JobConfigurations : cfg.name \in SoloJobs /\ Add(cfg)
  \/ (started \/ \A j \in Jobs : jctx[j] < MaxStarts) /\ SchedulerStart
  \/ \E j \in Jobs : jctx[j] < MaxStarts /\ StartJob(j)
  \/ SchedulerStop
  \/ \E j \in Jobs : StopCancel(j)
  \/ \E j \in Jobs : StopTicker(j)
  \/ \E j \in Jobs : StopWait(j)
  \/ CancelStartCtx
  \/ \E g \in JobGoroutines : JobGoroutine(g)

\* a scheduler made by NewJobScheduler(r) for any rate r
SchedulerInit ==
  /\ LockerWatchdogInit
  /\ \E r \in RateInputs : SchedulerIdle(NewJobScheduler(r))
  /\ AppIdle
  /\ NewReadinessBarrier
  /\ TickerIdle(0)

SchedulerSpec == SchedulerInit /\ [][SchedulerNext]_vars

\* the most Start calls that launch goroutines when the scheduler has two jobs
MaxPairStarts == 1

\* a scheduler with two jobs: callers of Add at any time, callers of Start
\* when it is stopped and of Stop when it is started, and the jobs' goroutines
PairNext ==
  \/ \E cfg \in JobConfigurations : Add(cfg)
  \/ (~started /\ \A j \in Jobs : jctx[j] < MaxPairStarts) /\ SchedulerStart
  \/ \E j \in Jobs : jctx[j] < MaxPairStarts /\ StartJob(j)
  \/ started /\ SchedulerStop
  \/ \E j \in Jobs : StopCancel(j)
  \/ \E j \in Jobs : StopTicker(j)
  \/ \E j \in Jobs : StopWait(j)
  \/ \E g \in JobGoroutines : JobGoroutine(g)

PairSpec == SchedulerInit /\ [][PairNext]_vars

\* a scheduler with one job whose owner calls Start and Stop one after the
\* other, each call after the call before it has returned, for MaxStarts
\* cycles, while Add is called at any time, the ctx passed to Start is
\* cancelled at any time and the job's goroutines run
RestartNext ==
  \/ \E cfg \in JobConfigurations : cfg.name \in SoloJobs /\ Add(cfg)
  \/ (stopPc = "idle" /\ startPc = "idle" /\ \A j \in Jobs : jctx[j] < MaxStarts)
       /\ SchedulerStart
  \/ \E j \in Jobs : jctx[j] < MaxStarts /\ StartJob(j)
  \/ (startPc = "idle" /\ stopPc = "idle") /\ SchedulerStop
  \/ \E j \in Jobs : StopCancel(j)
  \/ \E j \in Jobs : StopTicker(j)
  \/ \E j \in Jobs : StopWait(j)
  \/ CancelStartCtx
  \/ \E g \in JobGoroutines : JobGoroutine(g)

RestartSpec == SchedulerInit /\ [][RestartNext]_vars

\* ------------------------------------------------------------------------
\* App (package application)
\* ------------------------------------------------------------------------
\* the most RegisterShutdown calls
MaxHooks == 4

\* the priorities passed to RegisterShutdown
Priorities == {10, 50, 200}

\* the events a supervisor goroutine receives from supervisor.Watcher:
\* LostAcquire, TakenAcquire, or the channel is closed
WatcherEvents == {LostAcquire, TakenAcquire, 0}

Insert_beforeEquals(list, new) ==
  LET before == Cardinality({i \in 1..Len(list) : list[i].priority < new.priority})
  IN  SubSeq(list, 1, before) \o <<new>> \o SubSeq(list, before + 1, Len(list))

\* RegisterShutdown, the loop: the node after which the new hook is linked
RECURSIVE Walk(_, _, _)
Walk(list, current, priority) ==
  IF current < Len(list) /\ list[current + 1].priority <= priority
    THEN Walk(list, current + 1, priority)
    ELSE current

\* RegisterShutdown, the list after the new hook is linked in
Insert(list, new) ==
  IF list = <<>> \/ list[1].priority > new.priority
    THEN <<new>> \o list
    ELSE LET current == Walk(list, 1, new.priority)
         IN  SubSeq(list, 1, current) \o <<new>> \o SubSeq(list, current + 1, Len(list))

CanLock_unlocked(t) == TRUE

\* app.shutdownRWM.Lock() returns when no one holds the lock
CanLock(t) == shutdownRWM = 0

\* RegisterShutdown(name, fn, priority), the whole call under app.shutdownRWM
RegisterShutdown(priority) ==
  /\ CanLock(0)
  /\ registrations' = registrations + 1
  /\ shutdown' = Insert(shutdown, [id |-> registrations + 1, priority |-> priority])
  /\ UNCHANGED <<shutdownRWM, stopperPc, stopperNext, batch, leaderSupervisors, Working,
                 supervisorDone, supervisorPc, supervisorCall, appDone>>
  /\ UNCHANGED <<executed, signalVars, outsideApp>>

\* RegisterWatchdogsLeadership(supervisor), called while the application is
\* set up
RegisterWatchdogsLeadership(s) ==
  /\ \A i \in 1..Len(leaderSupervisors) : leaderSupervisors[i] # s
  /\ \A t \in Stoppers : stopperPc[t] = "idle"
  /\ \A r \in Supervisors : supervisorPc[r] = "none"
  /\ leaderSupervisors' = Append(leaderSupervisors, s)
  /\ supervisorDone' = [supervisorDone EXCEPT ![s] = appDone]
  /\ UNCHANGED <<shutdown, registrations, shutdownRWM, stopperPc, stopperNext, batch,
                 Working, supervisorPc, supervisorCall, appDone>>
  /\ UNCHANGED <<executed, signalVars, outsideApp>>

\* StartWatchdogsLeadership(): one goroutine for each registered supervisor,
\* called while the application is set up
StartWatchdogsLeadership ==
  /\ leaderSupervisors # <<>>
  /\ \A t \in Stoppers : stopperPc[t] = "idle"
  /\ \A s \in Supervisors : supervisorPc[s] = "none"
  /\ supervisorPc' = [s \in Supervisors |->
                        IF \E i \in 1..Len(leaderSupervisors) : leaderSupervisors[i] = s
                          THEN "spawned" ELSE supervisorPc[s]]
  /\ UNCHANGED <<shutdown, registrations, shutdownRWM, stopperPc, stopperNext, batch,
                 leaderSupervisors, Working, supervisorDone, supervisorCall, appDone>>
  /\ UNCHANGED <<executed, signalVars, outsideApp>>

\* utils.GoRecover around the supervisor's loop: the goroutine returns at
\* once when app.ctx is already cancelled
GoRecoverSupervisor(s) ==
  /\ supervisorPc[s] = "spawned"
  /\ supervisorPc' = [supervisorPc EXCEPT ![s] = IF appDone THEN "exited" ELSE "loop"]
  /\ UNCHANGED <<shutdown, registrations, shutdownRWM, stopperPc, stopperNext, batch,
                 leaderSupervisors, Working, supervisorDone, supervisorCall, appDone>>
  /\ UNCHANGED <<executed, signalVars, outsideApp>>

\* the supervisor's select, case <-ctx.Done()
SupervisorAppDone(s) ==
  /\ supervisorPc[s] = "loop"
  /\ appDone
  /\ supervisorPc' = [supervisorPc EXCEPT ![s] = "exited"]
  /\ UNCHANGED <<shutdown, registrations, shutdownRWM, stopperPc, stopperNext, batch,
                 leaderSupervisors, Working, supervisorDone, supervisorCall, appDone>>
  /\ UNCHANGED <<executed, signalVars, outsideApp>>

\* the supervisor's select, case <-supervisor.ctx.Done()
SupervisorCtxDone(s) ==
  /\ supervisorPc[s] = "loop"
  /\ supervisorDone[s]
  /\ Working' = [Working EXCEPT ![s] = FALSE]
  /\ supervisorPc' = [supervisorPc EXCEPT ![s] = "exited"]
  /\ UNCHANGED <<shutdown, registrations, shutdownRWM, stopperPc, stopperNext, batch,
                 leaderSupervisors, supervisorDone, supervisorCall, appDone>>
  /\ UNCHANGED <<executed, signalVars, outsideApp>>

\* the record of the closure calls after closure c is called
CallClosure(last, c) ==
  IF last = "repeated" \/ last = c \/ (last = "none" /\ c = "Stop") THEN "repeated" ELSE c

SupervisorReceive_noFlag(s, res) ==
  /\ supervisorPc[s] = "loop"
  /\ supervisorPc' = [supervisorPc EXCEPT ![s] = IF res = 0 THEN "exited" ELSE "loop"]
  /\ Working' = [Working EXCEPT ![s] = IF res = LostAcquire THEN FALSE
                                       ELSE IF res = TakenAcquire THEN TRUE ELSE @]
  /\ supervisorCall' =
       [supervisorCall EXCEPT ![s] = IF res = LostAcquire THEN CallClosure(@, "Stop")
                                     ELSE IF res = TakenAcquire THEN CallClosure(@, "Start")
                                     ELSE @]
  /\ UNCHANGED <<shutdown, registrations, shutdownRWM, stopperPc, stopperNext, batch,
                 leaderSupervisors, supervisorDone, appDone>>
  /\ UNCHANGED <<executed, signalVars, outsideApp>>

\* the supervisor's select, case res, ok := <-supervisor.Watcher, with what
\* it does under supervisor.mu
SupervisorReceive(s, res) ==
  /\ supervisorPc[s] = "loop"
  /\ supervisorPc' = [supervisorPc EXCEPT ![s] = IF res = 0 THEN "exited" ELSE "loop"]
  /\ Working' = [Working EXCEPT ![s] = IF res = LostAcquire THEN FALSE
                                       ELSE IF res = TakenAcquire THEN TRUE ELSE @]
  /\ supervisorCall' =
       [supervisorCall EXCEPT ![s] =
          IF res = LostAcquire /\ Working[s] THEN CallClosure(@, "Stop")
          ELSE IF res = TakenAcquire /\ ~Working[s] THEN CallClosure(@, "Start")
          ELSE @]
  /\ UNCHANGED <<shutdown, registrations, shutdownRWM, stopperPc, stopperNext, batch,
                 leaderSupervisors, supervisorDone, appDone>>
  /\ UNCHANGED <<executed, signalVars, outsideApp>>

\* the owner of app.ctx cancels it, and with it every supervisor.ctx
CancelAppCtx ==
  /\ ~appDone
  /\ appDone' = TRUE
  /\ supervisorDone' =
       [s \in Supervisors |->
          supervisorDone[s] \/ \E i \in 1..Len(leaderSupervisors) : leaderSupervisors[i] = s]
  /\ UNCHANGED <<shutdown, registrations, shutdownRWM, stopperPc, stopperNext, batch,
                 leaderSupervisors, Working, supervisorPc, supervisorCall>>
  /\ UNCHANGED <<executed, signalVars, outsideApp>>

\* a caller t enters App.Stop
AppStop(t) ==
  /\ stopperPc[t] \in {"idle", "returned"}
  /\ stopperPc' = [stopperPc EXCEPT ![t] = "supervisors"]
  /\ stopperNext' = [stopperNext EXCEPT ![t] = 0]
  /\ UNCHANGED <<shutdown, registrations, shutdownRWM, batch, leaderSupervisors, Working,
                 supervisorDone, supervisorPc, supervisorCall, appDone>>
  /\ UNCHANGED <<executed, signalVars, outsideApp>>

\* App.Stop, one round of the loop over the supervisors, under supervisor.mu:
\* cancel, and Stop when the supervisor is working
StopSupervisor(t) ==
  /\ stopperPc[t] = "supervisors"
  /\ stopperNext[t] < Len(leaderSupervisors)
  /\ LET s == leaderSupervisors[stopperNext[t] + 1]
     IN  /\ supervisorDone' = [supervisorDone EXCEPT ![s] = TRUE]
         /\ supervisorCall' =
              [supervisorCall EXCEPT ![s] = IF Working[s] THEN CallClosure(@, "Stop") ELSE @]
         /\ Working' = [Working EXCEPT ![s] = FALSE]
  /\ stopperNext' = [stopperNext EXCEPT ![t] = @ + 1]
  /\ UNCHANGED <<shutdown, registrations, shutdownRWM, stopperPc, batch,
                 leaderSupervisors, supervisorPc, appDone>>
  /\ UNCHANGED <<executed, signalVars, outsideApp>>

\* shutdownAllAndDeleteAllCanceled, app.shutdownRWM.Lock(), after the loop
\* over the supervisors
ShutdownLock(t) ==
  /\ stopperPc[t] = "supervisors"
  /\ stopperNext[t] = Len(leaderSupervisors)
  /\ CanLock(t)
  /\ shutdownRWM' = t
  /\ stopperPc' = [stopperPc EXCEPT ![t] = "drain"]
  /\ batch' = <<>>
  /\ UNCHANGED <<shutdown, registrations, stopperNext, leaderSupervisors, Working,
                 supervisorDone, supervisorPc, supervisorCall, appDone>>
  /\ UNCHANGED <<executed, signalVars, outsideApp>>

\* shutdownAllAndDeleteAllCanceled, the loop: the hook at the head of the
\* list is called
HookStart(t) ==
  /\ stopperPc[t] = "drain"
  /\ shutdown # <<>>
  /\ stopperPc' = [stopperPc EXCEPT ![t] = "hook"]
  /\ batch' = Append(batch, Head(shutdown))
  /\ executed' = executed \cup {Head(shutdown).id}
  /\ UNCHANGED <<shutdown, registrations, shutdownRWM, stopperNext, leaderSupervisors,
                 Working, supervisorDone, supervisorPc, supervisorCall, appDone>>
  /\ UNCHANGED <<signalVars, outsideApp>>

\* the hook returns and the head of the list moves to the next node
HookReturn(t) ==
  /\ stopperPc[t] = "hook"
  /\ shutdown # <<>>
  /\ shutdown' = Tail(shutdown)
  /\ stopperPc' = [stopperPc EXCEPT ![t] = "drain"]
  /\ UNCHANGED <<registrations, shutdownRWM, stopperNext, batch, leaderSupervisors,
                 Working, supervisorDone, supervisorPc, supervisorCall, appDone>>
  /\ UNCHANGED <<executed, signalVars, outsideApp>>

\* the hook panics: the deferred Unlock runs, the hook stays at the head of
\* the list and the panic leaves App.Stop
HookPanic(t) ==
  /\ stopperPc[t] = "hook"
  /\ shutdownRWM' = IF shutdownRWM = t THEN 0 ELSE shutdownRWM
  /\ stopperPc' = [stopperPc EXCEPT ![t] = "panicked"]
  /\ UNCHANGED <<shutdown, registrations, stopperNext, batch, leaderSupervisors, Working,
                 supervisorDone, supervisorPc, supervisorCall, appDone>>
  /\ UNCHANGED <<executed, signalVars, outsideApp>>

\* the list is empty: the deferred Unlock runs and App.Stop returns
ShutdownUnlock(t) ==
  /\ stopperPc[t] = "drain"
  /\ shutdown = <<>>
  /\ shutdownRWM' = IF shutdownRWM = t THEN 0 ELSE shutdownRWM
  /\ stopperPc' = [stopperPc EXCEPT ![t] = "returned"]
  /\ UNCHANGED <<shutdown, registrations, stopperNext, batch, leaderSupervisors, Working,
                 supervisorDone, supervisorPc, supervisorCall, appDone>>
  /\ UNCHANGED <<executed, signalVars, outsideApp>>

\* the steps of one caller of App.Stop
Stopper(t) ==
  \/ AppStop(t)
  \/ StopSupervisor(t)
  \/ ShutdownLock(t)
  \/ HookStart(t)
  \/ HookReturn(t)
  \/ HookPanic(t)
  \/ ShutdownUnlock(t)

\* the steps of one supervisor goroutine
SupervisorGoroutine(s) ==
  \/ GoRecoverSupervisor(s)
  \/ SupervisorAppDone(s)
  \/ SupervisorCtxDone(s)
  \/ \E res \in WatcherEvents : SupervisorReceive(s, res)

\* the application: registrations, the supervisors and the callers of App.Stop
AppNext ==
  \/ \E priority \in Priorities : registrations < MaxHooks /\ RegisterShutdown(priority)
  \/ \E s \in Supervisors : RegisterWatchdogsLeadership(s)
  \/ StartWatchdogsLeadership
  \/ \E s \in Supervisors : SupervisorGoroutine(s)
  \/ CancelAppCtx
  \/ \E t \in Stoppers : Stopper(t)

AppSpec == Init /\ [][AppNext]_vars

\* the most RegisterShutdown calls when the supervisors are looked at
MaxSupervisionHooks == 1

\* the application with few hooks: the supervisors and the callers of App.Stop
SupervisionNext ==
  \/ \E priority \in Priorities :
       registrations < MaxSupervisionHooks /\ RegisterShutdown(priority)
  \/ \E s \in Supervisors : RegisterWatchdogsLeadership(s)
  \/ StartWatchdogsLeadership
  \/ \E s \in Supervisors : SupervisorGoroutine(s)
  \/ CancelAppCtx
  \/ \E t \in Stoppers : Stopper(t)

SupervisionSpec == Init /\ [][SupervisionNext]_vars

\* ------------------------------------------------------------------------
\* App: a LeaderSupervisor whose Watcher is the channel of an election
\* ------------------------------------------------------------------------
\* isLeader transitions of an election bound to a supervisor
MaxBoundEvents == 3

\* the election whose channel is the Watcher of the supervisor
BoundElection == 1

\* the supervisor's select, case res, ok := <-supervisor.Watcher, on the
\* channel of election e: the oldest event buffered, or ok = false when the
\* channel is closed and empty; with what it does under supervisor.mu
WatcherReceive(s, e) ==
  /\ supervisorPc[s] = "loop"
  /\ \/ /\ watcher[e] # <<>>
        /\ LET res == Head(watcher[e]) IN
             /\ Working' = [Working EXCEPT ![s] = IF res = LostAcquire THEN FALSE
                                                  ELSE IF res = TakenAcquire THEN TRUE
                                                  ELSE @]
             /\ supervisorCall' =
                  [supervisorCall EXCEPT ![s] =
                     IF res = LostAcquire /\ Working[s] THEN CallClosure(@, "Stop")
                     ELSE IF res = TakenAcquire /\ ~Working[s] THEN CallClosure(@, "Start")
                     ELSE @]
        /\ watcher' = [watcher EXCEPT ![e] = Tail(@)]
        /\ UNCHANGED supervisorPc
     \/ /\ watcher[e] = <<>>
        /\ chan[e] = "closed"
        /\ supervisorPc' = [supervisorPc EXCEPT ![s] = "exited"]
        /\ UNCHANGED <<Working, supervisorCall, watcher>>
  /\ UNCHANGED <<shutdown, registrations, shutdownRWM, stopperPc, stopperNext, batch,
                 leaderSupervisors, supervisorDone, appDone, executed, signalVars>>
  /\ UNCHANGED <<store, lockerVars, pc, cfgName, cfgExpiration, cancelled, isLeader,
                 sending, after, chan, emitted, changes, called, lastErr, elCall, lapsed>>
  /\ UNCHANGED outsideSupervision

\* the goroutine of a supervisor bound to election e
BoundSupervisor(s, e) ==
  \/ GoRecoverSupervisor(s)
  \/ SupervisorAppDone(s)
  \/ SupervisorCtxDone(s)
  \/ WatcherReceive(s, e)

\* one election, its watchdog's Stop, and the supervisor that reads its channel
BoundNext ==
  \/ \E n \in ElectionNames, d \in ConfigExpirations : Elect(BoundElection, n, d)
  \/ Goroutine(BoundElection, MaxBoundEvents)
  \/ Stop(BoundElection)
  \/ TimePasses
  \/ \E s \in Supervisors : RegisterWatchdogsLeadership(s)
  \/ StartWatchdogsLeadership
  \/ \E s \in Supervisors : BoundSupervisor(s, BoundElection)
  \/ CancelAppCtx

BoundSpec == Init /\ [][BoundNext]_vars

\* ------------------------------------------------------------------------
\* App: the signal handler of App.Start and the deferred function of
\* RegisterRecovers
\* ------------------------------------------------------------------------

\* make(chan os.Signal, 1)
SigCap == 1

\* the signals App.Start subscribes to
OSSignals == {"SIGTERM", "SIGINT", "SIGQUIT"}

appState == <<shutdown, registrations, shutdownRWM, stopperPc, stopperNext, batch,
              leaderSupervisors, Working, supervisorPc, supervisorCall, executed>>

\* App.Start(cancel): signal.Notify and the launch of the handler goroutine
AppStart ==
  /\ handlerPc = "none"
  /\ notifying' = TRUE
  /\ handlerPc' = "spawned"
  /\ UNCHANGED <<sig, signalled, cancelCalls, recoverPc>>
  /\ UNCHANGED <<appState, appDone, supervisorDone, outsideApp>>

\* utils.GoRecover: the handler is not run when app.ctx is already done
GoRecoverHandler ==
  /\ handlerPc = "spawned"
  /\ handlerPc' = IF appDone THEN "skipped" ELSE "waiting"
  /\ UNCHANGED <<sig, notifying, signalled, cancelCalls, recoverPc>>
  /\ UNCHANGED <<appState, appDone, supervisorDone, outsideApp>>

\* the handler's <-app.sig
HandlerReceive ==
  /\ handlerPc = "waiting"
  /\ sig # <<>>
  /\ sig' = Tail(sig)
  /\ handlerPc' = "received"
  /\ UNCHANGED <<notifying, signalled, cancelCalls, recoverPc>>
  /\ UNCHANGED <<appState, appDone, supervisorDone, outsideApp>>

HandlerCancel_again ==
  /\ handlerPc = "received"
  /\ cancelCalls' = cancelCalls + 1
  /\ appDone' = TRUE
  /\ supervisorDone' = [s \in Supervisors |-> supervisorDone[s] \/ \E i \in 1..Len(leaderSupervisors) : leaderSupervisors[i] = s]
  /\ handlerPc' = "waiting"
  /\ UNCHANGED <<sig, notifying, signalled, recoverPc>>
  /\ UNCHANGED <<appState, outsideApp>>

\* the handler's cancel(), which cancels app.ctx and every supervisor.ctx,
\* and its deferred signal.Stop(app.sig)
HandlerCancel ==
  /\ handlerPc = "received"
  /\ cancelCalls' = cancelCalls + 1
  /\ appDone' = TRUE
  /\ supervisorDone' =
       [s \in Supervisors |->
          supervisorDone[s] \/ \E i \in 1..Len(leaderSupervisors) : leaderSupervisors[i] = s]
  /\ notifying' = FALSE
  /\ handlerPc' = "exited"
  /\ UNCHANGED <<sig, signalled, recoverPc>>
  /\ UNCHANGED <<appState, outsideApp>>

\* the operating system delivers signal x: the runtime puts it on every
\* subscribed channel that has room and drops it otherwise
OSSignal(x) ==
  /\ notifying
  /\ sig' = IF Len(sig) < SigCap THEN Append(sig, x) ELSE sig
  /\ signalled' = (signalled \/ Len(sig) < SigCap)
  /\ UNCHANGED <<notifying, handlerPc, cancelCalls, recoverPc>>
  /\ UNCHANGED <<appState, appDone, supervisorDone, outsideApp>>

\* the deferred function of RegisterRecovers runs after a panic: recover()
\* returns the panic's value and the function goes on to its send
RecoverPanic(p) ==
  /\ recoverPc[p] \in {"idle", "done"}
  /\ recoverPc' = [recoverPc EXCEPT ![p] = "send"]
  /\ UNCHANGED <<sig, notifying, signalled, handlerPc, cancelCalls>>
  /\ UNCHANGED <<appState, appDone, supervisorDone, outsideApp>>

\* the deferred function of RegisterRecovers runs without a panic
RecoverNothing(p) ==
  /\ recoverPc[p] \in {"idle", "done"}
  /\ recoverPc' = [recoverPc EXCEPT ![p] = "done"]
  /\ UNCHANGED <<sig, notifying, signalled, handlerPc, cancelCalls>>
  /\ UNCHANGED <<appState, appDone, supervisorDone, outsideApp>>

\* app.sig <- syscall.SIGTERM, which blocks while the buffer is full
RecoverSend(p) ==
  /\ recoverPc[p] = "send"
  /\ Len(sig) < SigCap
  /\ sig' = Append(sig, "SIGTERM")
  /\ signalled' = TRUE
  /\ recoverPc' = [recoverPc EXCEPT ![p] = "done"]
  /\ UNCHANGED <<notifying, handlerPc, cancelCalls>>
  /\ UNCHANGED <<appState, appDone, supervisorDone, outsideApp>>

SignalHandler == GoRecoverHandler \/ HandlerReceive \/ HandlerCancel

Recoverer(p) == RecoverPanic(p) \/ RecoverNothing(p) \/ RecoverSend(p)

\* the signal handling of one application with its supervisor registered
SignalNext ==
  \/ \E s \in Supervisors : RegisterWatchdogsLeadership(s)
  \/ AppStart
  \/ SignalHandler
  \/ \E x \in OSSignals : OSSignal(x)
  \/ \E p \in Recoverers : Recoverer(p)
  \/ CancelAppCtx

SignalSpec == Init /\ [][SignalNext]_vars

\* ------------------------------------------------------------------------
\* ReadinessBarrier
\* ------------------------------------------------------------------------
barrierState == <<running, readinessFlag, signals, barrierParent, runCancel, barrierWg,
                  nextCtx, runDone>>
barrierCallers == <<callerPc, callerCtx>>
barrierListeners == <<listenerPc, listenerSig>>
barrierSenders == <<senderPc, senderSig, senderDone>>
barrierHistory == <<lastRefused, sinceStop>>

\* Start(): r.running.CompareAndSwap(false, true), the return when it fails,
\* and ctx, cancel := context.WithCancel(r.parent) when it succeeds
BarrierStart(c) ==
  /\ callerPc[c] = "idle"
  /\ IF running
       THEN /\ lastRefused' = "Start"
            /\ UNCHANGED <<running, nextCtx, runDone, callerPc, callerCtx, sinceStop>>
       ELSE /\ nextCtx < MaxRuns
            /\ running' = TRUE
            /\ nextCtx' = nextCtx + 1
            /\ runDone' = [runDone EXCEPT ![nextCtx + 1] = barrierParent]
            /\ callerCtx' = [callerCtx EXCEPT ![c] = nextCtx + 1]
            /\ callerPc' = [callerPc EXCEPT ![c] = "assign"]
            /\ sinceStop' = IF sinceStop = "stopped" THEN "started" ELSE sinceStop
            /\ UNCHANGED lastRefused
  /\ UNCHANGED <<readinessFlag, signals, barrierParent, runCancel, barrierWg>>
  /\ UNCHANGED <<barrierListeners, barrierSenders, outsideBarrier>>

\* Start(): r.runCancel = cancel under r.mu
StartAssign(c) ==
  /\ callerPc[c] = "assign"
  /\ runCancel' = callerCtx[c]
  /\ callerPc' = [callerPc EXCEPT ![c] = "add"]
  /\ UNCHANGED <<running, readinessFlag, signals, barrierParent, barrierWg, nextCtx,
                 runDone, callerCtx>>
  /\ UNCHANGED <<barrierListeners, barrierSenders, barrierHistory, outsideBarrier>>

\* Start(): r.wg.Add(1)
StartAdd(c) ==
  /\ callerPc[c] = "add"
  /\ barrierWg' = barrierWg + 1
  /\ callerPc' = [callerPc EXCEPT ![c] = "go"]
  /\ UNCHANGED <<running, readinessFlag, signals, barrierParent, runCancel, nextCtx,
                 runDone, callerCtx>>
  /\ UNCHANGED <<barrierListeners, barrierSenders, barrierHistory, outsideBarrier>>

\* Start(): the go statement, and the return
StartGo(c) ==
  /\ callerPc[c] = "go"
  /\ listenerPc' = [listenerPc EXCEPT ![callerCtx[c]] = "select"]
  /\ callerPc' = [callerPc EXCEPT ![c] = "idle"]
  /\ callerCtx' = [callerCtx EXCEPT ![c] = NoCtx]
  /\ UNCHANGED <<barrierState, listenerSig, barrierSenders, barrierHistory,
                 outsideBarrier>>

\* Stop(): r.running.CompareAndSwap(true, false), and the return when it fails
BarrierStop(c) ==
  /\ callerPc[c] = "idle"
  /\ IF running
       THEN /\ running' = FALSE
            /\ callerPc' = [callerPc EXCEPT ![c] = "cancel"]
            /\ UNCHANGED lastRefused
       ELSE /\ lastRefused' = "Stop"
            /\ UNCHANGED <<running, callerPc>>
  /\ UNCHANGED <<readinessFlag, signals, barrierParent, runCancel, barrierWg, nextCtx,
                 runDone, callerCtx>>
  /\ UNCHANGED <<barrierListeners, barrierSenders, sinceStop, outsideBarrier>>

\* Stop(): under r.mu, r.runCancel() and r.runCancel = nil when it is not nil
BarrierStopCancel(c) ==
  /\ callerPc[c] = "cancel"
  /\ runDone' = [x \in Runs |-> runDone[x] \/ x = runCancel]
  /\ runCancel' = NoCtx
  /\ callerPc' = [callerPc EXCEPT ![c] = "wait"]
  /\ UNCHANGED <<running, readinessFlag, signals, barrierParent, barrierWg, nextCtx,
                 callerCtx>>
  /\ UNCHANGED <<barrierListeners, barrierSenders, barrierHistory, outsideBarrier>>

\* Stop(): r.wg.Wait()
BarrierStopWait(c) ==
  /\ callerPc[c] = "wait"
  /\ barrierWg = 0
  /\ callerPc' = [callerPc EXCEPT ![c] = "drop"]
  /\ UNCHANGED <<barrierState, callerCtx, barrierListeners, barrierSenders, barrierHistory,
                 outsideBarrier>>

\* Stop(): one turn of the drop loop: a signal is taken from the channel, or
\* the channel is empty and the loop is left
BarrierStopDrop(c) ==
  /\ callerPc[c] = "drop"
  /\ IF signals # <<>>
       THEN signals' = Tail(signals) /\ UNCHANGED callerPc
       ELSE callerPc' = [callerPc EXCEPT ![c] = "set"] /\ UNCHANGED signals
  /\ UNCHANGED <<running, readinessFlag, barrierParent, runCancel, barrierWg, nextCtx,
                 runDone, callerCtx>>
  /\ UNCHANGED <<barrierListeners, barrierSenders, barrierHistory, outsideBarrier>>

\* Stop(): r.setNotReady(), and the return
BarrierStopSet(c) ==
  /\ callerPc[c] = "set"
  /\ readinessFlag' = FALSE
  /\ callerPc' = [callerPc EXCEPT ![c] = "idle"]
  /\ sinceStop' = "stopped"
  /\ UNCHANGED <<running, signals, barrierParent, runCancel, barrierWg, nextCtx, runDone,
                 callerCtx>>
  /\ UNCHANGED <<barrierListeners, barrierSenders, lastRefused, outsideBarrier>>

\* listen(ctx): case <-ctx.Done(), and the deferred r.wg.Done()
ListenDone(l) ==
  /\ listenerPc[l] = "select"
  /\ runDone[l]
  /\ listenerPc' = [listenerPc EXCEPT ![l] = "exited"]
  /\ barrierWg' = barrierWg - 1
  /\ UNCHANGED <<running, readinessFlag, signals, barrierParent, runCancel, nextCtx,
                 runDone>>
  /\ UNCHANGED <<barrierCallers, listenerSig, barrierSenders, barrierHistory,
                 outsideBarrier>>

\* listen(ctx): case sig := <-r.signals
ListenReceive(l) ==
  /\ listenerPc[l] = "select"
  /\ signals # <<>>
  /\ listenerSig' = [listenerSig EXCEPT ![l] = Head(signals)]
  /\ signals' = Tail(signals)
  /\ listenerPc' = [listenerPc EXCEPT ![l] = "switch"]
  /\ UNCHANGED <<running, readinessFlag, barrierParent, runCancel, barrierWg, nextCtx,
                 runDone>>
  /\ UNCHANGED <<barrierCallers, barrierSenders, barrierHistory, outsideBarrier>>

\* listen(ctx): switch sig, with setReady() or setNotReady()
ListenSwitch(l) ==
  /\ listenerPc[l] = "switch"
  /\ readinessFlag' = (listenerSig[l] = ReadySignalToggle)
  /\ listenerPc' = [listenerPc EXCEPT ![l] = "select"]
  /\ UNCHANGED <<running, signals, barrierParent, runCancel, barrierWg, nextCtx, runDone>>
  /\ UNCHANGED <<barrierCallers, listenerSig, barrierSenders, barrierHistory,
                 outsideBarrier>>

\* the owner of r.parent cancels it, and with it every context derived
BarrierParentCancel ==
  /\ ~barrierParent
  /\ barrierParent' = TRUE
  /\ runDone' = [x \in Runs |-> runDone[x] \/ x <= nextCtx]
  /\ UNCHANGED <<running, readinessFlag, signals, runCancel, barrierWg, nextCtx>>
  /\ UNCHANGED <<barrierCallers, barrierListeners, barrierSenders, barrierHistory,
                 outsideBarrier>>

\* SendSignalCtx(ctx, sig) with a ctx that is done or not: r.running.Load()
\* and the return of the error when it is false
SendSignalCtx(d, sg, done) ==
  /\ senderPc[d] = "idle"
  /\ IF running
       THEN /\ senderPc' = [senderPc EXCEPT ![d] = "select"]
            /\ senderSig' = [senderSig EXCEPT ![d] = sg]
            /\ senderDone' = [senderDone EXCEPT ![d] = done]
            /\ sinceStop' = IF sinceStop = "started" /\ sg = ReadySignalToggle
                              THEN "readied" ELSE sinceStop
            /\ UNCHANGED lastRefused
       ELSE /\ lastRefused' = "SendSignalCtx"
            /\ UNCHANGED <<barrierSenders, sinceStop>>
  /\ UNCHANGED <<barrierState, barrierCallers, barrierListeners, outsideBarrier>>

\* the owner of the ctx of a SendSignalCtx call cancels it
SendCtxCancel(d) ==
  /\ senderPc[d] = "select"
  /\ ~senderDone[d]
  /\ senderDone' = [senderDone EXCEPT ![d] = TRUE]
  /\ UNCHANGED <<barrierState, barrierCallers, barrierListeners, senderPc, senderSig,
                 barrierHistory, outsideBarrier>>

\* SendSignalCtx: case r.signals <- sig
SendEnqueue(d) ==
  /\ senderPc[d] = "select"
  /\ Len(signals) < SignalsCap
  /\ signals' = Append(signals, senderSig[d])
  /\ senderPc' = [senderPc EXCEPT ![d] = "idle"]
  /\ sinceStop' = IF sinceStop = "started" /\ senderSig[d] = ReadySignalToggle
                    THEN "readied" ELSE sinceStop
  /\ UNCHANGED <<running, readinessFlag, barrierParent, runCancel, barrierWg, nextCtx,
                 runDone>>
  /\ UNCHANGED <<barrierCallers, barrierListeners, senderSig, senderDone, lastRefused,
                 outsideBarrier>>

\* SendSignalCtx: case <-ctx.Done()
SendSignalCtxDone(d) ==
  /\ senderPc[d] = "select"
  /\ senderDone[d]
  /\ senderPc' = [senderPc EXCEPT ![d] = "idle"]
  /\ UNCHANGED <<barrierState, barrierCallers, barrierListeners, senderSig, senderDone,
                 barrierHistory, outsideBarrier>>

BarrierCaller(c) ==
  \/ BarrierStart(c) \/ StartAssign(c) \/ StartAdd(c) \/ StartGo(c)
  \/ BarrierStop(c) \/ BarrierStopCancel(c) \/ BarrierStopWait(c)
  \/ BarrierStopDrop(c) \/ BarrierStopSet(c)

Listener(l) == ListenDone(l) \/ ListenReceive(l) \/ ListenSwitch(l)

Sender(d) ==
  \/ \E sg \in ToggleSignals, done \in BOOLEAN : SendSignalCtx(d, sg, done)
  \/ SendCtxCancel(d) \/ SendEnqueue(d) \/ SendSignalCtxDone(d)

\* the most signals in r.signals when concurrent Start and Stop are looked at
MaxRaceSignals == 1

\* concurrent callers of Start and Stop, with few signals in the channel
BarrierRaceNext ==
  \/ \E c \in Callers : BarrierCaller(c)
  \/ \E l \in Runs : Listener(l)
  \/ \E d \in Senders : Len(signals) < MaxRaceSignals /\ Sender(d)

BarrierRaceSpec == Init /\ [][BarrierRaceNext]_vars

\* the goroutine that calls Start and Stop one after the other
SoloCallers == {1}

\* the barrier with one goroutine calling Start and Stop, its listeners, the
\* callers of SendSignalCtx and the owner of its parent
BarrierNext ==
  \/ \E c \in SoloCallers : BarrierCaller(c)
  \/ \E l \in Runs : Listener(l)
  \/ \E d \in Senders : Sender(d)
  \/ BarrierParentCancel

BarrierSpec == Init /\ [][BarrierNext]_vars

\* Properties
\* ------------------------------------------------------------------------
StoredAt(key) == store[StoreKey(key)]
Last(q) == q[Len(q)]

\* C1: per key at most one token holds a Lock that returned true and is not
\* yet released or expired, that token is the stored value, and a Lock on a
\* held key returns false and leaves the stored lock as it was.
MutualExclusion ==
  /\ \A key \in ClientKeys :
       /\ Cardinality(granted[key]) <= 1
       /\ \A t \in granted[key] : StoredAt(key).val = t
  /\ (lastCall.op = "Lock" /\ lastCall.pre # NoLock) =>
       /\ ~lastCall.ok
       /\ StoredAt(lastCall.key) = lastCall.pre

\* a Lock with another token was refused while the key was held
MutualExclusionWitness ==
  /\ lastCall.op = "Lock"
  /\ ~lastCall.err
  /\ ~lastCall.ok
  /\ lastCall.pre # NoLock
  /\ lastCall.pre.val # lastCall.value
  /\ granted[lastCall.key] = {lastCall.pre.val}

\* the token of the call is the stored value
TokenMatches(c) == c.pre # NoLock /\ c.pre.val = c.value

\* C2: Unlock and ExtendLockTTL with a token that is not the stored value
\* return false and leave the stored lock, value and expiry, unchanged; with
\* the stored token and a store that answers, Unlock removes the lock and
\* ExtendLockTTL changes the expiry only.
Fencing ==
  (lastCall.op \in {"Unlock", "ExtendLockTTL"}) =>
     /\ ~TokenMatches(lastCall) =>
          (~lastCall.ok /\ StoredAt(lastCall.key) = lastCall.pre)
     /\ (TokenMatches(lastCall) /\ lastCall.err) =>
          (~lastCall.ok /\ StoredAt(lastCall.key) = lastCall.pre)
     /\ (TokenMatches(lastCall) /\ ~lastCall.err) =>
          /\ lastCall.ok
          /\ lastCall.op = "Unlock" => StoredAt(lastCall.key) = NoLock
          /\ lastCall.op = "ExtendLockTTL" =>
               StoredAt(lastCall.key) = [val |-> lastCall.pre.val, ttl |-> lastCall.ms]

\* the store ran an Unlock with a token other than the holder's
FencingWitness ==
  /\ lastCall.op = "Unlock"
  /\ ~lastCall.err
  /\ lastCall.pre # NoLock
  /\ lastCall.pre.val # lastCall.value

\* the store refuses the call: the key is held (Lock) or the token is not the
\* stored value (Unlock, ExtendLockTTL)
Refused(c) == IF c.op = "Lock" THEN c.pre # NoLock ELSE ~TokenMatches(c)

\* C10: a locker call returns (false, error) when the store is not reached
\* and (result, nil) when the store ran the script, so false with a nil
\* error means that the store refused the call.
ErrorIsNotRefusal ==
  (lastCall.op # "none") =>
     /\ ~lastCall.up => (~lastCall.ok /\ lastCall.err)
     /\ lastCall.up => (~lastCall.err /\ (lastCall.ok <=> ~Refused(lastCall)))
     /\ (~lastCall.ok /\ ~lastCall.err) => (lastCall.up /\ Refused(lastCall))

\* the store was not reached by an ExtendLockTTL of the holder
ErrorIsNotRefusalWitness ==
  /\ lastCall.op = "ExtendLockTTL"
  /\ ~lastCall.up
  /\ lastCall.err
  /\ TokenMatches(lastCall)

\* C3 (as claimed): two elections of the same name are never leader together,
\* as long as no lease has expired while its holder was leader.
AtMostOneLeader ==
  (lapsed # "leader") =>
     \A e1, e2 \in Elections :
        (e1 # e2 /\ cfgName[e1] = cfgName[e2]) => ~(isLeader[e1] /\ isLeader[e2])

\* the election has released the lease with Unlock and has yet to clear isLeader
Unlocked(e) == pc[e] = "set" /\ after[e] = "return"

\* C3 (amended): two elections of the same name are never leader together,
\* an election that has called Unlock and is about to clear isLeader not
\* counted, as long as no lease has expired while its holder was leader or
\* was between its Lock and isLeader = true.
AtMostOneLeaderHolding ==
  (lapsed = "no") =>
     \A e1, e2 \in Elections :
        (e1 # e2 /\ cfgName[e1] = cfgName[e2]) =>
           ~(isLeader[e1] /\ ~Unlocked(e1) /\ isLeader[e2] /\ ~Unlocked(e2))

\* election 2 leads after election 1 led and lost the lease without an expiry
\* under a leader; election 1, in its loop, is refused
AtMostOneLeaderHoldingWitness ==
  /\ lapsed = "no"
  /\ isLeader[2] /\ pc[2] = "loop"
  /\ ~isLeader[1] /\ pc[1] = "loop" /\ changes[1] = <<TakenAcquire, LostAcquire>>
  /\ cfgName[1] = cfgName[2]

\* C4: the events put on the channel alternate TakenAcquire, LostAcquire,
\* TakenAcquire, ... beginning with TakenAcquire.
EventsAlternate ==
  \A e \in Elections : \A i \in 1..Len(emitted[e]) :
     emitted[e][i] = IF i % 2 = 1 THEN TakenAcquire ELSE LostAcquire

\* C5: when the channel is closed the last event put on it is not
\* TakenAcquire: a consumer that saw TakenAcquire gets LostAcquire before the
\* close.
FinalLostBeforeClose ==
  \A e \in Elections :
     (chan[e] = "closed" /\ emitted[e] # <<>>) => Last(emitted[e]) = LostAcquire

\* C6: once the watchdog context is cancelled, an election goroutine started
\* by Elect terminates and its channel gets closed.
StopEndsElection ==
  \A e \in Elections :
     (cancelled[e] /\ chan[e] = "open") ~> (pc[e] = "done" /\ chan[e] = "closed")

\* C7: while the context is live the events put on the channel are the
\* changes of isLeader, the one of a pending send excepted, however full the
\* buffer is; with the context cancelled a pending send can always go on.
NoTransitionDropped ==
  \A e \in Elections :
     /\ ~cancelled[e] =>
          changes[e] = IF pc[e] = "send" THEN Append(emitted[e], sending[e])
                                         ELSE emitted[e]
     /\ (pc[e] = "send" /\ cancelled[e]) => ENABLED send(e)

\* a ninth event went into the channel: its send waited for a free slot
NoTransitionDroppedWitness ==
  /\ ~cancelled[1]
  /\ Len(emitted[1]) = WatcherCap + 1
  /\ Len(watcher[1]) = WatcherCap

\* C8: after a Lock or ExtendLockTTL that ended with an error the goroutine
\* is still in its loop with the channel open, and the next Lock the store
\* answers while the key is free makes the election leader and sends
\* TakenAcquire.
StoreErrorNotFatal ==
  [][\A e \in Elections :
       /\ lastErr'[e] => (pc'[e] \in {"loop", "set", "send"} /\ chan'[e] = "open")
       /\ (lastErr[e] /\ ~lastErr'[e] /\ ~isLeader[e] /\ StoredAt(cfgName[e]) = NoLock) =>
            (pc'[e] = "set" /\ sending'[e] = TakenAcquire /\ after'[e] = "loop")]_vars

\* a Lock ended with an error and the election waits for its next tick
StoreErrorNotFatalWitness ==
  /\ lastErr[1] /\ ~isLeader[1] /\ changes[1] = <<>>
  /\ pc[1] = "loop" /\ ~cancelled[1]
  /\ StoredAt(cfgName[1]) = NoLock

\* C9: an Elect with an empty ElectionName has panicked before making the
\* channel, starting the goroutine or calling the locker, and every election
\* that got further has a name.
EmptyNamePanicsFirst ==
  \A e \in Elections :
     /\ pc[e] = "panicked" =>
          (chan[e] = "none" /\ ~called[e] /\ watcher[e] = <<>> /\ cfgName[e] = "")
     /\ pc[e] \notin {"idle", "panicked"} => cfgName[e] # ""

\* one Elect panicked while the other election runs
EmptyNamePanicsFirstWitness ==
  /\ pc[1] = "panicked"
  /\ pc[2] = "loop"

\* C11: an Add call returns an error and leaves the registered jobs as they
\* are when the scheduler is started or a job of that name is registered (the
\* registered job is not replaced); otherwise it returns nil and registers
\* exactly the job of its configuration.
AddRegistersOnce ==
  [][lastOp'.op = "Add" =>
       LET refused == started \/ jobs[lastOp'.name] # NoJob
       IN  /\ lastOp'.err = refused
           /\ jobs' = IF refused
                        THEN jobs
                        ELSE [jobs EXCEPT ![lastOp'.name] =
                                             [stopMode |-> lastOp'.stopMode]]]_vars

\* an Add of a registered name with another stop mode was refused while
\* another name was still free
AddRegistersOnceWitness ==
  /\ lastOp.op = "Add"
  /\ lastOp.err
  /\ jobs[lastOp.name] # NoJob
  /\ jobs[lastOp.name].stopMode # lastOp.stopMode
  /\ \E j \in Jobs : jobs[j] = NoJob

\* the scheduler's state without the record of the last call
schedulerState ==
  <<rate, rateUsed, started, muHeld, jobs, jctx, jctxDone, tickerStopped, wg, parentDone,
    startPc, startTodo, stopPc, stopTodo, stopCur, gpc, glocal, execParent, execCtx>>

\* C12: a Start call on a started scheduler and a Stop call on a scheduler
\* that is not started change nothing: no goroutine is launched, no ctx or
\* ticker is replaced, no caller enters a loop or waits, so Start; Start
\* leaves the state of Start and Stop; Stop the state of Stop.
LifecycleIdempotent ==
  [][/\ (lastOp'.op = "Start" /\ started) => UNCHANGED schedulerState
     /\ (lastOp'.op = "Stop" /\ ~started) => UNCHANGED schedulerState]_vars

\* Start was called on a started scheduler while a job function was running
LifecycleIdempotentWitness ==
  /\ lastOp.op = "Start"
  /\ lastOp.was
  /\ \E g \in JobGoroutines : gpc[g] = "running"

\* C13: once a Stop that stopped the scheduler has returned, and until Start
\* is called again, the ctx of every job is cancelled, every job goroutine
\* that was launched has exited and no job function runs.
StoppedMeansQuiet ==
  stopDone =>
    \A j \in Registered :
      /\ jctx[j] # 0 => jctx[j] \in jctxDone[j]
      /\ \A k \in Gens : gpc[<<j, k>>] = "none"

\* the goroutines that are inside their job function
Executing == {g \in JobGoroutines : gpc[g] \in {"running", "panicking"}}

\* C14: the job functions executing at the same time, over all jobs, are at
\* most as many as the rate the scheduler was made with, which is 1 for a
\* rate of 0 or less; with a rate of 1 the functions of two jobs A and B
\* never execute at the same time.
RateLimitsExecutions ==
  /\ rate \in {NewJobScheduler(r) : r \in RateInputs}
  /\ rate >= 1
  /\ Cardinality(Executing) <= rate
  /\ rate = 1 => ~(\E g, h \in Executing : g[1] = "A" /\ h[1] = "B")

\* with a rate of 1, one job's function executes while the other job's
\* goroutine waits in exec for the slot
RateLimitsExecutionsWitness ==
  /\ rate = 1
  /\ \E g, h \in JobGoroutines :
       /\ g[1] # h[1]
       /\ gpc[g] = "running"
       /\ gpc[h] = "exec"
       /\ jctx[h[1]] \notin jctxDone[h[1]]

\* C15: for every job at most one execution of its function is in flight at
\* any instant, after any sequence and interleaving of Start, Stop and ticks.
OneExecutionPerJob ==
  \A j \in Jobs : Cardinality({g \in Executing : g[1] = j}) <= 1

\* the goroutines that hold a slot of the rate channel
HoldingSlot == {g \in JobGoroutines : gpc[g] \in {"check", "running", "panicking"}}

\* C16: a panic of a job function is recovered inside exec and becomes the
\* error exec returns: the step that ends the panic releases the slot,
\* leaves the goroutine in run's loop, where it executes on later ticks, and
\* changes no other goroutine and no wait group.
PanicIsRecovered ==
  [][/\ rateUsed = Cardinality(HoldingSlot)
     /\ \A g \in JobGoroutines :
          /\ (gpc[g] = "panicking" /\ gpc'[g] # "panicking") =>
               /\ gpc'[g] = "recovered"
               /\ rateUsed' = rateUsed - 1
               /\ wg' = wg
               /\ \A h \in JobGoroutines \ {g} : gpc'[h] = gpc[h]
          /\ (gpc[g] = "recovered" /\ gpc'[g] # "recovered") => gpc'[g] = "loop"]_vars

\* exec has returned the error of a panic and the slot is free while the
\* goroutine of the other job is in exec, about to take it
PanicIsRecoveredWitness ==
  \E g, h \in JobGoroutines :
    /\ g[1] # h[1]
    /\ gpc[g] = "recovered"
    /\ gpc[h] = "exec"
    /\ rateUsed = 0

\* C17: the ctx given to an execution of a StopGraceful job derives from
\* context.Background(), so Stop never cancels it (it ends by its deadline
\* only), and a Stop that cancelled the job while the execution was running
\* returns only after that execution has completed.
GracefulRunsToCompletion ==
  /\ \A g \in Executing :
       jobs[g[1]].stopMode = StopGraceful =>
         /\ execParent[g] = Background
         /\ execCtx[g] \in {"live", "deadline"}
  /\ stopPc = "idle" =>
       ~(\E g \in awaited : jobs[g[1]].stopMode = StopGraceful)

\* Stop has cancelled the job's ctx and waits while the execution of the
\* StopGraceful job it found running goes on with a live ctx
GracefulRunsToCompletionWitness ==
  \E g \in awaited :
    /\ jobs[g[1]].stopMode = StopGraceful
    /\ stopPc = "wait"
    /\ gpc[g] = "running"
    /\ execCtx[g] = "live"
    /\ jctx[g[1]] \in jctxDone[g[1]]

\* C18: the ctx given to an execution of a StopImmediate job derives from the
\* job's ctx, and is done (cancelled, unless its deadline had passed before)
\* from the moment Stop cancels the job's ctx or the ctx passed to Start is
\* cancelled, without waiting for the deadline.
ImmediateIsCancelled ==
  \A g \in Executing :
    jobs[g[1]].stopMode = StopImmediate =>
      /\ execParent[g] \in Gens
      /\ execParent[g] \in jctxDone[g[1]] => execCtx[g] \in {"cancelled", "deadline"}

\* Stop has cancelled the job's ctx while the StopImmediate job's function
\* was running, and its ctx is cancelled although the deadline has not passed
ImmediateIsCancelledWitness ==
  \E g \in awaited :
    /\ jobs[g[1]].stopMode = StopImmediate
    /\ gpc[g] = "running"
    /\ execCtx[g] = "cancelled"
    /\ stopPc \in {"cancel", "wait"}

\* ascending priority, and among equal priorities the order of registration
StablySorted(list) ==
  \A i, j \in 1..Len(list) :
    i < j => \/ list[i].priority < list[j].priority
             \/ list[i].priority = list[j].priority /\ list[i].id < list[j].id

\* the hooks of the list that no caller of App.Stop has started
NotStarted ==
  IF \E t \in Stoppers : stopperPc[t] = "hook" THEN Tail(shutdown) ELSE shutdown

\* C19: after every RegisterShutdown the list of hooks is the stable sort by
\* ascending priority of the hooks registered and not yet run, and App.Stop
\* runs the hooks in that order: the hooks it has started, followed by those
\* it has yet to start, are stably sorted.
HooksInPriorityOrder ==
  /\ StablySorted(shutdown)
  /\ shutdownRWM # 0 => StablySorted(batch \o NotStarted)

\* hooks registered with priorities 50, 10, 200, 10 have run as the first
\* 10, the second 10, 50, 200
HooksInPriorityOrderWitness ==
  /\ shutdown = <<>>
  /\ batch = <<[id |-> 2, priority |-> 10], [id |-> 4, priority |-> 10],
               [id |-> 1, priority |-> 50], [id |-> 3, priority |-> 200]>>

\* C20: at most one shutdown hook executes at any instant, a caller of
\* App.Stop runs a hook only while it holds the lock, and the hook that
\* executes is the head of the list, so no hook that is registered and has
\* not completed has a lower priority value, also with several callers of
\* App.Stop at once.
HooksRunOneAtATime ==
  /\ Cardinality({t \in Stoppers : stopperPc[t] = "hook"}) <= 1
  /\ \A t \in Stoppers :
       stopperPc[t] \in {"drain", "hook"} => shutdownRWM = t
  /\ \A t \in Stoppers :
       stopperPc[t] = "hook" =>
         /\ shutdown # <<>>
         /\ Last(batch) = Head(shutdown)
         /\ \A i \in 1..Len(shutdown) : shutdown[i].priority >= Head(shutdown).priority

\* one caller of App.Stop executes the second hook of its run while the
\* other caller waits for the lock
HooksRunOneAtATimeWitness ==
  \E t, u \in Stoppers :
    /\ stopperPc[t] = "hook"
    /\ Len(batch) = 2
    /\ Len(shutdown) >= 2
    /\ stopperPc[u] = "supervisors"
    /\ stopperNext[u] = Len(leaderSupervisors)

\* C21: every registered shutdown hook is executed exactly once over any
\* number of App.Stop calls: a hook that App.Stop calls has not been called
\* before, and an App.Stop call that leaves its loop over the hooks has
\* drained the list completely.
HooksRunExactlyOnce ==
  [][\A t \in Stoppers :
       /\ (stopperPc[t] = "drain" /\ stopperPc'[t] = "hook") =>
            Head(shutdown).id \notin executed
       /\ (stopperPc[t] \in {"drain", "hook"} /\ stopperPc'[t] \notin {"drain", "hook"}) =>
            shutdown' = <<>>]_vars

\* the supervisors in app.leaderSupervisors
RegisteredSupervisors == {leaderSupervisors[i] : i \in 1..Len(leaderSupervisors)}

\* C22: the calls of a supervisor's Start and Stop closures alternate,
\* beginning with Start, under every interleaving of the events the
\* supervisor goroutine receives with App.Stop: no closure is called twice in
\* a row, Stop is never the first call, and the supervisor is marked working
\* only when Start was called last.
ClosuresAlternate ==
  \A s \in Supervisors :
    /\ supervisorCall[s] # "repeated"
    /\ Working[s] => supervisorCall[s] = "Start"

\* App.Stop has called the Stop closure of a working supervisor whose
\* goroutine is still in its loop and can receive further events
ClosuresAlternateWitness ==
  \E s \in Supervisors, t \in Stoppers :
    /\ supervisorCall[s] = "Stop"
    /\ supervisorPc[s] = "loop"
    /\ supervisorDone[s]
    /\ ~appDone
    /\ stopperPc[t] = "returned"

\* C23: after App.Stop has returned no guarded subsystem is left running:
\* the last closure called for a registered supervisor is not Start.
StopLeavesNothingStarted ==
  (\E t \in Stoppers : stopperPc[t] = "returned") =>
    \A s \in RegisteredSupervisors : supervisorCall[s] # "Start"

\* C24: after App.Stop has returned every supervisor goroutine launched by
\* StartWatchdogsLeadership has exited.
StopJoinsSupervisors ==
  (\E t \in Stoppers : stopperPc[t] = "returned") =>
    \A s \in RegisteredSupervisors : supervisorPc[s] \notin {"spawned", "loop"}

\* C25: the signal handler installed by App.Start invokes the root cancel at
\* most once whatever number of operating-system signals and recovered-panic
\* signals arrive, never before a signal was put on the channel, and only as
\* the step that follows its receipt of a signal.
HandlerCancelsOnce ==
  /\ cancelCalls <= 1
  /\ cancelCalls = 1 => signalled /\ handlerPc = "exited"
  /\ handlerPc \in {"received", "exited"} => signalled

\* the handler has invoked the cancel and a further signal, sent by a
\* recovered panic, is on the channel
HandlerCancelsOnceWitness ==
  /\ cancelCalls = 1
  /\ sig = <<"SIGTERM">>
  /\ \E p \in Recoverers : recoverPc[p] = "send"

\* a deferred function of RegisterRecovers that can never complete its send:
\* the buffer is full and the handler, the only reader, reads no more
BlockedForGood(p) ==
  /\ recoverPc[p] = "send"
  /\ Len(sig) = SigCap
  /\ handlerPc \in {"received", "exited", "skipped"}

\* C26: whenever the deferred function returned by RegisterRecovers recovers
\* a panic, a SIGTERM is put on the channel the handler reads: no such
\* function is left blocked for good on its send.
PanicSignalIsSent == \A p \in Recoverers : ~BlockedForGood(p)

\* the listener goroutines that exist
Listeners == {l \in Runs : listenerPc[l] \in {"select", "switch"}}

\* C27: under any interleaving of concurrent Start and Stop calls at most
\* one listener goroutine exists, and once the calls have returned a
\* listener exists only while running is true.
OneListenerWhileRunning ==
  /\ Cardinality(Listeners) <= 1
  /\ (\A c \in Callers : callerPc[c] = "idle") => (Listeners # {} => running)

\* C28: once Stop has returned the listener has exited and IsReady returns
\* false, and it keeps returning false until a later Start followed by a
\* ReadySignalToggle sent after that Start.
StopResetsReadiness ==
  /\ sinceStop = "stopped" => Listeners = {}
  /\ sinceStop \in {"stopped", "started"} => ~readinessFlag

\* C29: every signal enqueued on a running barrier is eventually consumed:
\* no running barrier whose Start and Stop calls have returned holds a signal
\* with no listener left to take it.
EnqueuedIsConsumed ==
  (running /\ signals # <<>> /\ \A c \in Callers : callerPc[c] = "idle") => Listeners # {}

\* C30: a SendSignalCtx call that found the barrier running returns in one
\* of two ways: it has enqueued exactly its signal, or it has enqueued
\* nothing and its ctx is cancelled while the buffer is full; a call that
\* finds the barrier not running leaves the buffer and the flag unchanged.
SendEnqueuesOrFailsWhenFull ==
  [][\A d \in Senders :
       /\ (senderPc[d] = "select" /\ senderPc'[d] = "idle") =>
            \/ signals' = Append(signals, senderSig[d])
            \/ signals' = signals /\ senderDone[d] /\ Len(signals) = SignalsCap
       /\ (senderPc[d] = "idle" /\ lastRefused # "SendSignalCtx"
             /\ lastRefused' = "SendSignalCtx") =>
            ~running /\ signals' = signals /\ readinessFlag' = readinessFlag]_vars

\* C31: in the election goroutine isLeader becomes true only directly after
\* a Lock that returned true, and becomes false only directly after an
\* ExtendLockTTL that did not return true or, on cancellation, after the
\* Unlock; in the loop an election that is not leader calls only Lock and a
\* leader calls only ExtendLockTTL, or Unlock once cancelled; and the loop
\* is entered only after one Lock was attempted.
LeaderFollowsLocker ==
  [][\A e \in Elections :
       /\ (~isLeader[e] /\ isLeader'[e]) =>
            (pc[e] = "set" /\ elCall[e].op = "Lock" /\ elCall[e].ok)
       /\ (isLeader[e] /\ ~isLeader'[e]) =>
            /\ pc[e] = "set"
            /\ \/ elCall[e].op = "ExtendLockTTL" /\ ~elCall[e].ok
               \/ elCall[e].op = "Unlock" /\ cancelled[e]
       /\ (pc[e] = "loop" /\ elCall'[e] # elCall[e]) =>
            \/ elCall'[e].op = "Lock" /\ ~isLeader[e]
            \/ elCall'[e].op = "ExtendLockTTL" /\ isLeader[e]
            \/ elCall'[e].op = "Unlock" /\ isLeader[e] /\ cancelled[e]
       /\ pc[e] = "lock0" => elCall[e] = NoCall
       /\ (pc[e] = "lock0" /\ pc'[e] # "lock0") => elCall'[e].op = "Lock"
       /\ pc'[e] = "loop" => elCall'[e] # NoCall]_vars

\* an election whose context is live was leader and stopped being leader
\* after an ExtendLockTTL that the store refused
LeaderFollowsLockerWitness ==
  \E e \in Elections :
    /\ changes[e] = <<TakenAcquire, LostAcquire>>
    /\ ~isLeader[e]
    /\ ~cancelled[e]
    /\ elCall[e] = [op |-> "ExtendLockTTL", ok |-> FALSE, up |-> TRUE]

\* nothing is left of the election's events: the channel is empty and the
\* goroutine has no event to send
Drained(e) == watcher[e] = <<>> /\ pc[e] # "send"

\* C32: for an election bound to a LeaderSupervisor, while the root and the
\* supervisor contexts are live, once the event channel is drained the
\* guarded subsystem is running exactly when the election's isLeader is
\* true.
SubsystemFollowsLeadership ==
  \A s \in RegisteredSupervisors :
    (~appDone /\ ~supervisorDone[s] /\ supervisorPc[s] # "none" /\ Drained(BoundElection)) =>
      (Working[s] <=> isLeader[BoundElection])

\* C33: whenever a supervisor's mutex is free its Working flag is true
\* exactly when the last closure called on it was Start: the flag is never
\* set without a call of Start and never cleared without a call of Stop.
WorkingIsLastClosure ==
  \A s \in Supervisors : Working[s] <=> supervisorCall[s] = "Start"

\* C34: when a Stop that stopped the barrier returns, the signal buffer is
\* empty, under every interleaving with concurrent SendSignalCtx calls: no
\* signal accepted before that return is left for the listener of a later
\* Start.
StopLeavesBufferEmpty ==
  [][\A c \in Callers :
       (callerPc[c] = "set" /\ callerPc'[c] = "idle") => signals' = <<>>]_vars

\* C35: for every configured Expiration of at least 10 time units, and for
\* the default of 30 used when Expiration <= 0, the goroutine makes its
\* ticker, and the renewal interval r satisfies Expiration/3 <= r <
\* Expiration/3 + Expiration/10, hence r < Expiration and 2r < Expiration:
\* a leader attempts renewal at least twice within one lease duration.
RenewalWithinLease ==
  (tickerCfg <= 0 \/ tickerCfg >= 10) =>
    LET expiration == IF tickerCfg <= 0 THEN 30 ELSE tickerCfg IN
      /\ tickerPc # "panicked"
      /\ tickerPc = "ticking" =>
           /\ expiration \div 3 <= renewIntervalJitter
           /\ renewIntervalJitter < expiration \div 3 + expiration \div 10
           /\ renewIntervalJitter < expiration
           /\ 2 * renewIntervalJitter < expiration

\* the ticker of a defaulted Expiration got the largest jitter
RenewalWithinLeaseWitness ==
  /\ tickerCfg = 0
  /\ tickerPc = "ticking"
  /\ renewIntervalJitter = 12

\* the goroutines of job j that were launched and have not returned
LiveGoroutines(j) == {g \in JobGoroutines : g[1] = j /\ gpc[g] # "none"}

\* C36: a Stop call made after a Start returns, whatever the state of the
\* ctx passed to Start: while Stop waits in j.wg.Wait() for a job, every unit
\* of the job's WaitGroup belongs to a goroutine that is still there to call
\* j.wg.Done(), so the wait can end
StopCanReturn ==
  stopPc = "wait" => \A j \in stopTodo : wg[j] <= Cardinality(LiveGoroutines(j))

\* a scheduler that runs after a restart: a Start that followed a Stop has
\* returned, no Stop is in progress and the ctx passed to Start is live
Restarted(j) ==
  /\ started
  /\ startPc = "idle"
  /\ stopPc = "idle"
  /\ ~parentDone
  /\ jctx[j] >= 2

\* C37: after Start, Stop, Start, in any number of cycles, every registered
\* job has exactly one goroutine, the one the last Start launched, and its
\* ctx and ticker are the ones that Start made: the ctx is not cancelled and
\* the ticker is not stopped, so the job's function is executed on its ticks
RestartRunsEveryJob ==
  \A j \in Registered :
    Restarted(j) =>
      /\ LiveGoroutines(j) = {<<j, jctx[j]>>}
      /\ jctx[j] \notin jctxDone[j]
      /\ jctx[j] \notin tickerStopped[j]
      /\ \A g \in LiveGoroutines(j) :
           /\ gpc[g] \notin {"spawned", "loop"} => glocal[g] = jctx[j]
           /\ execCtx[g] # "none" /\ execParent[g] # Background => execParent[g] = jctx[j]

RestartRunsEveryJobWitness ==
  \E j \in Registered :
    /\ Restarted(j)
    /\ gpc[<<j, jctx[j]>>] = "running"
    /\ execCtx[<<j, jctx[j]>>] = "live"

\* the election has made its first locker call or a later one, and is not
\* between a Lock that returned true and the assignment isLeader = true
Settled(e) ==
  /\ pc[e] \in {"loop", "set", "send", "done"}
  /\ ~(pc[e] = "set" /\ sending[e] = TakenAcquire)

\* C38: whenever isLeader is false, the lock stored for the election's name
\* does not carry the election's token: an election that reported
\* LostAcquire, or that never was leader, does not own the lease in the store
NotLeaderOwnsNothing ==
  \A e \in Elections :
    (Settled(e) /\ ~isLeader[e]) => StoredAt(cfgName[e]).val # Token(e)

\* C39: once the election goroutine has returned after the cancellation of
\* its ctx, the store holds no lock that carries the election's token, when
\* the store was reachable for the Unlock: the Unlock is made with a ctx that
\* is not cancelled, so the script runs
ReleasedAtExit ==
  \A e \in Elections :
    (pc[e] = "done" /\ cancelled[e] /\ (elCall[e].op = "Unlock" => elCall[e].up)) =>
      /\ StoredAt(cfgName[e]).val # Token(e)
      /\ \/ elCall[e].op = "Unlock"
         \/ elCall[e] = NoCall

ReleasedAtExitWitness ==
  \E e \in Elections :
    /\ pc[e] = "done"
    /\ cancelled[e]
    /\ elCall[e] = [op |-> "Unlock", ok |-> TRUE, up |-> TRUE]
    /\ StoredAt(cfgName[e]) = NoLock

\* the receives from app.sig that can still happen: the handler of App.Start
\* receives once, and only if it has not done so, was not skipped and, when
\* App.Start was not called yet, is started later
ReceivesLeft == IF handlerPc \in {"none", "spawned", "waiting"} THEN 1 ELSE 0

\* the deferred functions of RegisterRecovers that are at their send
Sending == {p \in Recoverers : recoverPc[p] = "send"}

\* C40: the deferred function of RegisterRecovers always returns: the
\* signals on the channel and the sends under way are never more than the
\* buffer and the receives still to come can take, before App.Start was
\* called as well as after the handler has exited
RecoverAlwaysReturns ==
  Len(sig) + Cardinality(Sending) <= SigCap + ReceivesLeft

====
